---- MODULE Spec2Model ----
(***************************************************************************)
(* Geometry composition and animation interpolation of the Line, Bar and   *)
(* Pie series of recharts.                                                 *)
(*                                                                         *)
(* Numbers.  The code computes in JavaScript doubles.  The model computes  *)
(* in exact rationals [n |-> numerator, d |-> denominator] in lowest terms *)
(* with d > 0, so structural equality is numeric equality; rounding of     *)
(* doubles is not modelled.  d = 0 encodes the two non-numbers the code    *)
(* meets: NaN and undefined.                                               *)
(***************************************************************************)
EXTENDS Integers, Sequences, FiniteSets, TLC

VARIABLES
    pieProps,      \* Pie: the item props read by Pie.getComposedData
    pieComposed,   \* Pie: what Pie.getComposedData returned for pieProps
    barProps,      \* Bar: the inputs read by Bar.getComposedData
    barComposed,   \* Bar: the rectangles Bar.getComposedData returned
    lineAnim,      \* Line: one tick of the curve animation (inputs and output)
    series,        \* a mounted Line, Bar or Pie: props, state and last frame
    lineProps,     \* Line: the inputs read by Line.getComposedData
    lineComposed,  \* Line: the points Line.getComposedData returned
    children,      \* findAllByType: the children searched
    found,         \* findAllByType: what the search returned
    pieFocus       \* Pie: the sector refs, the focus index and the last key event

vars == <<pieProps, pieComposed, barProps, barComposed, lineAnim, series,
          lineProps, lineComposed, children, found, pieFocus>>

----------------------------------------------------------------------------
(* JavaScript numbers *)

NaN == [n |-> 0, d |-> 0]
Undefined == [n |-> 1, d |-> 0]

IsNumber(x) == x.d > 0

IAbs(i) == IF i < 0 THEN -i ELSE i

RECURSIVE GCD(_, _)
GCD(a, b) == IF b = 0 THEN a ELSE GCD(b, a % b)

Norm(n, d) ==
    LET g == GCD(IAbs(n), IAbs(d))
        s == IF d < 0 THEN -1 ELSE 1
    IN  [n |-> (s * n) \div g, d |-> (s * d) \div g]

Num(i) == [n |-> i, d |-> 1]

Add(a, b) == IF IsNumber(a) /\ IsNumber(b) THEN Norm(a.n * b.d + b.n * a.d, a.d * b.d) ELSE NaN
Sub(a, b) == IF IsNumber(a) /\ IsNumber(b) THEN Norm(a.n * b.d - b.n * a.d, a.d * b.d) ELSE NaN
Mul(a, b) == IF IsNumber(a) /\ IsNumber(b) THEN Norm(a.n * b.n, a.d * b.d) ELSE NaN
Div(a, b) ==
    IF IsNumber(a) /\ IsNumber(b) /\ b.n # 0 THEN Norm(a.n * b.d, a.d * b.n) ELSE NaN

\* Comparisons with NaN or undefined are false, as in JavaScript.
Lt(a, b) == IsNumber(a) /\ IsNumber(b) /\ a.n * b.d < b.n * a.d
Le(a, b) == IsNumber(a) /\ IsNumber(b) /\ a.n * b.d <= b.n * a.d
Gt(a, b) == Lt(b, a)
Ge(a, b) == Le(b, a)

MathAbs(a) == IF IsNumber(a) THEN [n |-> IAbs(a.n), d |-> a.d] ELSE NaN
MathMin(a, b) == IF IsNumber(a) /\ IsNumber(b) THEN (IF Lt(b, a) THEN b ELSE a) ELSE NaN
MathFloor(a) == IF IsNumber(a) THEN Num(a.n \div a.d) ELSE NaN

\* mathSign of util/DataUtils: 0 for 0, 1 for positive, -1 otherwise.
mathSign(a) == IF a.n = 0 /\ IsNumber(a) THEN Num(0) ELSE IF IsNumber(a) /\ a.n > 0 THEN Num(1) ELSE Num(-1)

RECURSIVE SumSeq(_)
SumSeq(s) == IF s = <<>> THEN Num(0) ELSE Add(s[1], SumSeq(Tail(s)))

----------------------------------------------------------------------------
(* Pie.getComposedData *)

MaxPieLen == 3
MaxPieVal == 2

\* The value getValueByDataKey(entry, realDataKey, 0) finds in an entry: a
\* number (0 when the key is missing) or something that is not a number.
PieValues == {Num(v) : v \in -1..MaxPieVal} \cup {NaN}
StartAngles == {0, 90}
EndAngles == {0, 360, 450, -270}
MinAngles == {0, 2, -200}
PaddingAngles == {0, 5, -5}

parseDeltaAngle(startAngle, endAngle) ==
    LET sign == mathSign(Sub(endAngle, startAngle))
        deltaAngle == MathMin(MathAbs(Sub(endAngle, startAngle)), Num(360))
    IN  Mul(sign, deltaAngle)

notZeroItemCount(pieData) == Cardinality({i \in 1..Len(pieData) : pieData[i] # Num(0)})

totalPadingAngleDropFullTurn(props) ==
    Mul(Num(notZeroItemCount(props.data) - 1), props.paddingAngle)

totalPadingAngle(props) ==
    LET absDeltaAngle == MathAbs(parseDeltaAngle(props.startAngle, props.endAngle))
        count == notZeroItemCount(props.data)
    IN  Mul(Num(IF Ge(absDeltaAngle, Num(360)) THEN count ELSE count - 1), props.paddingAngle)

realTotalAngle(props) ==
    LET absDeltaAngle == MathAbs(parseDeltaAngle(props.startAngle, props.endAngle))
        minAngle == MathAbs(props.minAngle)
    IN  Sub(Sub(absDeltaAngle, Mul(Num(notZeroItemCount(props.data)), minAngle)),
            totalPadingAngle(props))

pieSumOfMagnitudes(pieData) ==
    SumSeq([i \in 1..Len(pieData) |-> IF IsNumber(pieData[i]) THEN MathAbs(pieData[i]) ELSE Num(0)])

pieSum(pieData) ==
    SumSeq([i \in 1..Len(pieData) |-> IF IsNumber(pieData[i]) THEN pieData[i] ELSE Num(0)])

sectorSweepNoMinAngle(val, percent, c) == Mul(percent, c.realTotalAngle)

\* (val !== 0 ? minAngle : 0) + percent * realTotalAngle
sectorSweep(val, percent, c) ==
    Add(IF val # Num(0) THEN c.minAngle ELSE Num(0), Mul(percent, c.realTotalAngle))

RECURSIVE pieSectorsFromPadZeroValues(_, _, _, _)
pieSectorsFromPadZeroValues(props, c, i, prevEnd) ==
    IF i > Len(props.data) THEN <<>>
    ELSE
        LET val == props.data[i]
            percent == Div(IF IsNumber(val) THEN val ELSE Num(0), c.sum)
            tempStartAngle ==
                IF i > 1
                THEN Add(prevEnd, Mul(mathSign(c.deltaAngle), props.paddingAngle))
                ELSE props.startAngle
            tempEndAngle ==
                Add(tempStartAngle, Mul(mathSign(c.deltaAngle), sectorSweep(val, percent, c)))
            sector == [percent |-> percent,
                       midAngle |-> Div(Add(tempStartAngle, tempEndAngle), Num(2)),
                       value |-> val,
                       startAngle |-> tempStartAngle,
                       endAngle |-> tempEndAngle,
                       paddingAngle |-> Mul(mathSign(c.deltaAngle), props.paddingAngle)]
        IN  <<sector>> \o pieSectorsFromPadZeroValues(props, c, i + 1, tempEndAngle)

\* The sectors.map callback of getComposedData; prevEnd is prev.endAngle, and
\* c holds the constants the callback closes over.
RECURSIVE pieSectorsFrom(_, _, _, _)
pieSectorsFrom(props, c, i, prevEnd) ==
    IF i > Len(props.data) THEN <<>>
    ELSE
        LET val == props.data[i]
            percent == Div(IF IsNumber(val) THEN val ELSE Num(0), c.sum)
            tempStartAngle ==
                IF i > 1
                THEN Add(prevEnd, Mul(Mul(mathSign(c.deltaAngle), props.paddingAngle),
                                      IF val # Num(0) THEN Num(1) ELSE Num(0)))
                ELSE props.startAngle
            tempEndAngle ==
                Add(tempStartAngle, Mul(mathSign(c.deltaAngle), sectorSweep(val, percent, c)))
            sector == [percent |-> percent,
                       midAngle |-> Div(Add(tempStartAngle, tempEndAngle), Num(2)),
                       value |-> val,
                       startAngle |-> tempStartAngle,
                       endAngle |-> tempEndAngle,
                       paddingAngle |-> Mul(mathSign(c.deltaAngle), props.paddingAngle)]
        IN  <<sector>> \o pieSectorsFrom(props, c, i + 1, tempEndAngle)

\* isNull: the early return for no data; hasSectors: sectors is not undefined.
getComposedData(props) ==
    IF Len(props.data) = 0
    THEN [isNull |-> TRUE, hasSectors |-> FALSE, sectors |-> <<>>]
    ELSE
        LET c == [sum |-> pieSum(props.data),
                  deltaAngle |-> parseDeltaAngle(props.startAngle, props.endAngle),
                  minAngle |-> MathAbs(props.minAngle),
                  realTotalAngle |-> realTotalAngle(props)]
        IN  IF Gt(c.sum, Num(0))
            THEN [isNull |-> FALSE, hasSectors |-> TRUE,
                  sectors |-> pieSectorsFrom(props, c, 1, Num(0))]
            ELSE [isNull |-> FALSE, hasSectors |-> FALSE, sectors |-> <<>>]

\* Pie.render with the composed props: null when sectors is undefined or empty
\* (hide is false and the coordinates are numbers).
pieRenderIsNull(composed) == ~composed.hasSectors \/ Len(composed.sectors) = 0

\* Pie.defaultProps (startAngle 0, endAngle 360, minAngle 0, paddingAngle 0)
\* is one of the configurations; the chart starts with no data.
PieConfigs ==
    [data : {<<>>}, startAngle : {Num(a) : a \in StartAngles},
     endAngle : {Num(a) : a \in EndAngles}, minAngle : {Num(a) : a \in MinAngles},
     paddingAngle : {Num(a) : a \in PaddingAngles}]

\* The chart re-renders with new item props and composes the pie again.
PieRecompose(props) ==
    /\ pieProps' = props
    /\ pieComposed' = getComposedData(props)

PieAddEntry ==
    /\ Len(pieProps.data) < MaxPieLen
    /\ \E v \in PieValues : PieRecompose([pieProps EXCEPT !.data = Append(@, v)])

PieRemoveEntry ==
    /\ Len(pieProps.data) > 0
    /\ PieRecompose([pieProps EXCEPT !.data = SubSeq(@, 1, Len(@) - 1)])

Idle == [idle |-> TRUE]

InitPie ==
    /\ pieProps \in PieConfigs
    /\ pieComposed = getComposedData(pieProps)
    /\ barProps = Idle /\ barComposed = Idle /\ lineAnim = Idle /\ series = Idle
    /\ lineProps = Idle /\ lineComposed = Idle /\ children = Idle /\ found = Idle
    /\ pieFocus = Idle

NextPie ==
    \/ PieAddEntry /\ UNCHANGED <<barProps, barComposed, lineAnim, series,
                 lineProps, lineComposed, children, found, pieFocus>>
    \/ PieRemoveEntry /\ UNCHANGED <<barProps, barComposed, lineAnim, series,
                 lineProps, lineComposed, children, found, pieFocus>>

SpecPie == InitPie /\ [][NextPie]_vars

----------------------------------------------------------------------------
(* Bar.getComposedData *)

MaxBarLen == 2
MaxBarVal == 1

\* An entry of displayedData is reduced to its value pair [value[0], value[1]]:
\* the stacked pair, the range, or [baseValue, value]; a missing value is
\* undefined.
BarValuePairs == {<<b, v>> : b \in {Num(0), Num(1)},
                             v \in {Num(i) : i \in -1..MaxBarVal} \cup {Undefined}}
BarMinPointSizes == {0, 3, -3}

\* The numeric axis' scale: linear on numbers, props.unknown (NaN or undefined)
\* on anything else.
scale(props, v) ==
    IF IsNumber(v) THEN Add(Num(10), Mul(Num(props.slope), v)) ELSE props.unknown

\* a ?? b
Coalesce(a, b) == IF a = Undefined THEN b ELSE a

\* a || b
OrElse(a, b) == IF IsNumber(a) /\ a # Num(0) THEN a ELSE b

minPointDeltaSignOfMinPointSize(extent, minPointSize) ==
    Mul(mathSign(minPointSize), Sub(MathAbs(minPointSize), MathAbs(extent)))

\* mathSign(extent || minPointSize) * (Math.abs(minPointSize) - Math.abs(extent))
minPointDelta(extent, minPointSize) ==
    Mul(mathSign(OrElse(extent, minPointSize)), Sub(MathAbs(minPointSize), MathAbs(extent)))

needsMinPoint(extent, minPointSize) ==
    Gt(MathAbs(minPointSize), Num(0)) /\ Lt(MathAbs(extent), MathAbs(minPointSize))

\* Slot position and size along the category axis (getCateCoordinateOfBar and
\* pos.size, computed outside this component).
cateCoordinateOfBar(index) == Num(20 * index)
posSize == Num(8)

barRectHorizontal(props, index) ==
    LET value == props.data[index]
        minPointSize == Num(props.minPointSize)
        baseValueScale == scale(props, value[1])
        currentValueScale == scale(props, value[2])
        y0 == Coalesce(currentValueScale, Coalesce(baseValueScale, Undefined))
        computedHeight == Sub(baseValueScale, currentValueScale)
        height0 == IF computedHeight = NaN THEN Num(0) ELSE computedHeight
        adjust == needsMinPoint(height0, minPointSize)
        delta == minPointDelta(height0, minPointSize)
    IN  [x |-> cateCoordinateOfBar(index),
         y |-> IF adjust THEN Sub(y0, delta) ELSE y0,
         width |-> posSize,
         height |-> IF adjust THEN Add(height0, delta) ELSE height0,
         value |-> value[2]]

barRectVertical(props, index) ==
    LET value == props.data[index]
        minPointSize == Num(props.minPointSize)
        baseValueScale == scale(props, value[1])
        currentValueScale == scale(props, value[2])
        width0 == Sub(currentValueScale, baseValueScale)
        adjust == needsMinPoint(width0, minPointSize)
        delta == minPointDelta(width0, minPointSize)
    IN  [x |-> baseValueScale,
         y |-> cateCoordinateOfBar(index),
         width |-> IF adjust THEN Add(width0, delta) ELSE width0,
         height |-> posSize,
         value |-> value[2]]

barGetComposedData(props) ==
    [index \in 1..Len(props.data) |->
        IF props.layout = "horizontal"
        THEN barRectHorizontal(props, index)
        ELSE barRectVertical(props, index)]

BarConfigs ==
    [data : {<<>>}, layout : {"horizontal", "vertical"}, minPointSize : BarMinPointSizes,
     slope : {-2, 1}, unknown : {NaN, Undefined}]

BarRecompose(props) ==
    /\ barProps' = props
    /\ barComposed' = barGetComposedData(props)

BarAddEntry ==
    /\ Len(barProps.data) < MaxBarLen
    /\ \E v \in BarValuePairs : BarRecompose([barProps EXCEPT !.data = Append(@, v)])

BarRemoveEntry ==
    /\ Len(barProps.data) > 0
    /\ BarRecompose([barProps EXCEPT !.data = SubSeq(@, 1, Len(@) - 1)])

InitBar ==
    /\ barProps \in BarConfigs
    /\ barComposed = barGetComposedData(barProps)
    /\ pieProps = Idle /\ pieComposed = Idle /\ lineAnim = Idle /\ series = Idle
    /\ lineProps = Idle /\ lineComposed = Idle /\ children = Idle /\ found = Idle
    /\ pieFocus = Idle

NextBar ==
    \/ BarAddEntry /\ UNCHANGED <<pieProps, pieComposed, lineAnim, series,
                 lineProps, lineComposed, children, found, pieFocus>>
    \/ BarRemoveEntry /\ UNCHANGED <<pieProps, pieComposed, lineAnim, series,
                 lineProps, lineComposed, children, found, pieFocus>>

SpecBar == InitBar /\ [][NextBar]_vars

----------------------------------------------------------------------------
(* Line: one run of the render callback of renderCurveWithAnimation *)

TDen == 4
MaxDashLen == 3
MaxTotalLength == 5
MaxPrevLen == 5
MaxCurLen == 10

\* Progress t = k / TDen for k in 0..TDen.
Progress(k) == Norm(k, TDen)

\* interpolateNumber(a, b)(t) of util/DataUtils: linear in t.
interpolateNumber(a, b, t) == Add(a, Mul(t, Sub(b, a)))

\* The tokens `${strokeDasharray}`.split(/[,\s]+/) can yield, and parseFloat of
\* each.
DashTokens == {"0", "1", "2", "4", "x"}
parseFloat(token) ==
    CASE token = "0" -> Num(0)
      [] token = "1" -> Num(1)
      [] token = "2" -> Num(2)
      [] token = "4" -> Num(4)
      [] OTHER -> NaN

parseDashTokens(tokens) == [i \in 1..Len(tokens) |-> parseFloat(tokens[i])]

\* a % b of JavaScript: the remainder has the sign of the dividend.
JsMod(a, b) ==
    LET q == Div(a, b)
        trunc == IF Ge(q, Num(0)) THEN MathFloor(q) ELSE Sub(Num(0), MathFloor(Sub(Num(0), q)))
    IN  Sub(a, Mul(b, trunc))

generateSimpleStrokeDasharraySwapped(totalLength, length) ==
    [sep |-> " ", unit |-> "px", values |-> <<Sub(totalLength, length), length>>]

generateSimpleStrokeDasharray(totalLength, length) ==
    [sep |-> " ", unit |-> "px", values |-> <<length, Sub(totalLength, length)>>]

RECURSIVE repeatLoop(_, _)
repeatLoop(linesUnit, count) ==
    IF count <= 0 THEN <<>> ELSE repeatLoop(linesUnit, count - 1) \o linesUnit

repeatNoPadding(lines, count) == repeatLoop(lines, count)

\* Line.repeat: count is an integer here, Math.floor of a quotient.
repeat(lines, count) ==
    repeatLoop(IF Len(lines) % 2 # 0 THEN Append(lines, Num(0)) ELSE lines, count)

RECURSIVE remainLinesFromKeepSum(_, _, _, _)
remainLinesFromKeepSum(lines, remainLength, i, sum) ==
    IF i > Len(lines) THEN <<>>
    ELSE IF Gt(Add(sum, lines[i]), remainLength)
    THEN Append(SubSeq(lines, 1, i - 1), remainLength)
    ELSE remainLinesFromKeepSum(lines, remainLength, i + 1, Add(sum, lines[i]))

\* The for loop of getStrokeDasharray, from index i with running sum `sum`.
RECURSIVE remainLinesFrom(_, _, _, _)
remainLinesFrom(lines, remainLength, i, sum) ==
    IF i > Len(lines) THEN <<>>
    ELSE IF Gt(Add(sum, lines[i]), remainLength)
    THEN Append(SubSeq(lines, 1, i - 1), Sub(remainLength, sum))
    ELSE remainLinesFrom(lines, remainLength, i + 1, Add(sum, lines[i]))

getStrokeDasharrayZeroTestOnly(length, totalLength, lines) ==
    LET lineLength == SumSeq(lines)
        restLength == Sub(totalLength, length)
    IN  IF lineLength = Num(0)
        THEN generateSimpleStrokeDasharray(totalLength, length)
        ELSE IF ~IsNumber(lineLength)
        THEN [sep |-> ", ", unit |-> "px", values |-> <<Num(0), restLength>>]
        ELSE
            LET count == MathFloor(Div(length, lineLength))
                remainLength == JsMod(length, lineLength)
                remainLines == remainLinesFrom(lines, remainLength, 1, Num(0))
                emptyLines ==
                    IF Len(remainLines) % 2 = 0 THEN <<Num(0), restLength>> ELSE <<restLength>>
            IN  [sep |-> ", ", unit |-> "px",
                 values |-> repeat(lines, count.n) \o remainLines \o emptyLines]

getStrokeDasharraySingleGap(length, totalLength, lines) ==
    LET lineLength == SumSeq(lines)
    IN  IF ~IsNumber(lineLength) \/ lineLength = Num(0)
        THEN generateSimpleStrokeDasharray(totalLength, length)
        ELSE
            LET count == MathFloor(Div(length, lineLength))
                remainLength == JsMod(length, lineLength)
                restLength == Sub(totalLength, length)
                remainLines == remainLinesFrom(lines, remainLength, 1, Num(0))
            IN  [sep |-> ", ", unit |-> "px",
                 values |-> repeat(lines, count.n) \o remainLines \o <<restLength>>]

getStrokeDasharrayNaNTestOnly(length, totalLength, lines) ==
    LET lineLength == SumSeq(lines)
        restLength == Sub(totalLength, length)
    IN  IF ~IsNumber(lineLength)
        THEN generateSimpleStrokeDasharray(totalLength, length)
        ELSE IF lineLength = Num(0)
        THEN [sep |-> ", ", unit |-> "px", values |-> <<Num(0), restLength>>]
        ELSE
            LET count == MathFloor(Div(length, lineLength))
                remainLength == JsMod(length, lineLength)
                remainLines == remainLinesFrom(lines, remainLength, 1, Num(0))
                emptyLines ==
                    IF Len(remainLines) % 2 = 0 THEN <<Num(0), restLength>> ELSE <<restLength>>
            IN  [sep |-> ", ", unit |-> "px",
                 values |-> repeat(lines, count.n) \o remainLines \o emptyLines]

\* !lineLength holds for a sum of 0 and for a sum that is NaN.
getStrokeDasharray(length, totalLength, lines) ==
    LET lineLength == SumSeq(lines)
    IN  IF ~IsNumber(lineLength) \/ lineLength = Num(0)
        THEN generateSimpleStrokeDasharray(totalLength, length)
        ELSE
            LET count == MathFloor(Div(length, lineLength))
                remainLength == JsMod(length, lineLength)
                restLength == Sub(totalLength, length)
                remainLines == remainLinesFrom(lines, remainLength, 1, Num(0))
                emptyLines ==
                    IF Len(remainLines) % 2 = 0 THEN <<Num(0), restLength>> ELSE <<restLength>>
            IN  [sep |-> ", ", unit |-> "px",
                 values |-> repeat(lines, count.n) \o remainLines \o emptyLines]

prevPointIndexUnscaled(index, prevLen, curLen) == index

prevPointIndexRoundUp(index, prevLen, curLen) ==
    Sub(Num(0), MathFloor(Sub(Num(0), Mul(Num(index), Div(Num(prevLen), Num(curLen)))))).n

\* Math.floor(index * prevPointsDiffFactor), index counted from 0.
prevPointIndex(index, prevLen, curLen) ==
    MathFloor(Mul(Num(index), Div(Num(prevLen), Num(curLen)))).n

lineStepPointAlwaysGlide(c, index, t) ==
    LET entry == c.points[index]
        prevIndex == prevPointIndex(index - 1, Len(c.prevPoints), Len(c.points)) + 1
    IN  IF prevIndex \in 1..Len(c.prevPoints)
        THEN [x |-> interpolateNumber(c.prevPoints[prevIndex].x, entry.x, t),
              y |-> interpolateNumber(c.prevPoints[prevIndex].y, entry.y, t)]
        ELSE [x |-> interpolateNumber(Mul(c.width, Num(2)), entry.x, t),
              y |-> interpolateNumber(Div(c.height, Num(2)), entry.y, t)]

\* The points.map callback; index counted from 1 as TLA+ sequences are.
lineStepPoint(c, index, t) ==
    LET entry == c.points[index]
        prevIndex == prevPointIndex(index - 1, Len(c.prevPoints), Len(c.points)) + 1
    IN  IF prevIndex \in 1..Len(c.prevPoints)
        THEN [x |-> interpolateNumber(c.prevPoints[prevIndex].x, entry.x, t),
              y |-> interpolateNumber(c.prevPoints[prevIndex].y, entry.y, t)]
        ELSE IF c.animateNewValues
        THEN [x |-> interpolateNumber(Mul(c.width, Num(2)), entry.x, t),
              y |-> interpolateNumber(Div(c.height, Num(2)), entry.y, t)]
        ELSE [x |-> entry.x, y |-> entry.y]

lineFrameDashOnInterpolation(c, t) ==
    LET curLength == interpolateNumber(Num(0), c.totalLength, t)
    IN  [points |-> IF c.hasPrevPoints
                    THEN [i \in 1..Len(c.points) |-> lineStepPoint(c, i, t)]
                    ELSE c.points,
         dash |-> TRUE, curLength |-> curLength,
         strokeDasharray |->
             IF Len(c.strokeDasharray) > 0
             THEN getStrokeDasharray(curLength, c.totalLength,
                                     parseDashTokens(c.strokeDasharray))
             ELSE generateSimpleStrokeDasharray(c.totalLength, curLength)]

\* What the render callback hands to renderCurveStatically at progress t.
\* c.hasPrevPoints is the truthiness of prevPoints; c.strokeDasharray is the
\* token list of the prop, empty when the prop is not set.
lineFrame(c, t) ==
    IF c.hasPrevPoints
    THEN [points |-> [i \in 1..Len(c.points) |-> lineStepPoint(c, i, t)],
          dash |-> FALSE, curLength |-> Num(0),
          strokeDasharray |-> [sep |-> "", unit |-> "", values |-> <<>>]]
    ELSE
        LET curLength == interpolateNumber(Num(0), c.totalLength, t)
        IN  [points |-> c.points, dash |-> TRUE, curLength |-> curLength,
             strokeDasharray |->
                 IF Len(c.strokeDasharray) > 0
                 THEN getStrokeDasharray(curLength, c.totalLength,
                                         parseDashTokens(c.strokeDasharray))
                 ELSE generateSimpleStrokeDasharray(c.totalLength, curLength)]

PrevPointsOf(m, v) == [j \in 1..m |-> [x |-> Num(3 * (j - 1)), y |-> Num(v * j + 1)]]
CurPointsOf(n) == [i \in 1..n |-> [x |-> Num(2 * (i - 1)), y |-> Num(20 - i)]]

RECURSIVE TokenSeqs(_)
TokenSeqs(n) ==
    IF n = 0 THEN {<<>>}
    ELSE TokenSeqs(n - 1) \cup
         {Append(s, k) : s \in {q \in TokenSeqs(n - 1) : Len(q) = n - 1}, k \in DashTokens}

\* First mount: no previous points, the dash reveal runs on the measured length.
LineRevealConfigs ==
    [hasPrevPoints : {FALSE}, prevPoints : {<<>>}, points : {CurPointsOf(2)},
     totalLength : {Num(l) : l \in 0..MaxTotalLength},
     strokeDasharray : TokenSeqs(MaxDashLen),
     animateNewValues : {TRUE}, width : {Num(100)}, height : {Num(50)}]

\* Later animations: previous points exist and positions are interpolated.
LineInterpConfigs ==
    [hasPrevPoints : {TRUE},
     prevPoints : {PrevPointsOf(m, v) : m \in 0..MaxPrevLen, v \in {1, 2}},
     points : {CurPointsOf(n) : n \in 1..MaxCurLen},
     totalLength : {Num(MaxTotalLength)}, strokeDasharray : {<<>>, <<"4", "2">>},
     animateNewValues : BOOLEAN, width : {Num(100)}, height : {Num(50)}]

\* Animate renders its child first with the `from` style, t = 0.
InitLine ==
    /\ \E c \in LineRevealConfigs \cup LineInterpConfigs :
          lineAnim = [c |-> c, k |-> 0, frame |-> lineFrame(c, Progress(0))]
    /\ pieProps = Idle /\ pieComposed = Idle /\ barProps = Idle /\ barComposed = Idle
    /\ series = Idle
    /\ lineProps = Idle /\ lineComposed = Idle /\ children = Idle /\ found = Idle
    /\ pieFocus = Idle

\* The scheduler delivers the next, larger progress value.
LineTick ==
    /\ lineAnim.k < TDen
    /\ \E k \in (lineAnim.k + 1)..TDen :
          lineAnim' = [lineAnim EXCEPT !.k = k, !.frame = lineFrame(lineAnim.c, Progress(k))]
    /\ UNCHANGED <<pieProps, pieComposed, barProps, barComposed, series,
                 lineProps, lineComposed, children, found, pieFocus>>

NextLine == LineTick

SpecLine == InitLine /\ [][NextLine]_vars

----------------------------------------------------------------------------
(* Line.getComposedData *)

MaxLineLen == 3
MaxLineVal == 3

Null == [n |-> 2, d |-> 0]

isNil(value) == value = Null \/ value = Undefined

\* The value getValueByDataKey(entry, dataKey) finds in an entry: a number,
\* NaN, or nothing (null, undefined).
LineValues == {Num(v) : v \in 1..MaxLineVal} \cup {Null, Undefined, NaN}

\* The value axis scale: linear on numbers, NaN on anything else.
lineScale(axis, value) ==
    IF IsNumber(value) THEN Add(Num(axis.offset), Mul(Num(axis.slope), value)) ELSE NaN

LineAxes == {[offset |-> 100, slope |-> -10], [offset |-> 0, slope |-> 1]}

\* The category ticks lie 10 apart from 0; the coordinate of entry index is
\* its tick's, moved by half the band.
getCateCoordinateOfLine(bandSize, index) ==
    Add(Num(10 * (index - 1)), Div(bandSize, Num(2)))

linePointOfNoNilTest(props, index) ==
    LET entry == props.displayedData[index]
        value == entry.v
    IN  IF props.layout = "horizontal"
        THEN [x |-> getCateCoordinateOfLine(props.bandSize, index),
              y |-> lineScale(props.valueAxis, value),
              value |-> value, payload |-> entry]
        ELSE [x |-> lineScale(props.valueAxis, value),
              y |-> getCateCoordinateOfLine(props.bandSize, index),
              value |-> value, payload |-> entry]

\* The displayedData.map callback.
linePointOf(props, index) ==
    LET entry == props.displayedData[index]
        value == entry.v
    IN  IF props.layout = "horizontal"
        THEN [x |-> getCateCoordinateOfLine(props.bandSize, index),
              y |-> IF isNil(value) THEN Null ELSE lineScale(props.valueAxis, value),
              value |-> value, payload |-> entry]
        ELSE [x |-> IF isNil(value) THEN Null ELSE lineScale(props.valueAxis, value),
              y |-> getCateCoordinateOfLine(props.bandSize, index),
              value |-> value, payload |-> entry]

lineGetComposedData(props) ==
    [points |-> [i \in 1..Len(props.displayedData) |-> linePointOf(props, i)],
     layout |-> props.layout]

LineConfigs ==
    [displayedData : {<<>>}, layout : {"horizontal", "vertical"},
     bandSize : {Num(0), Num(4)}, valueAxis : LineAxes]

LineRecompose(props) ==
    /\ lineProps' = props
    /\ lineComposed' = lineGetComposedData(props)

LineAddEntry ==
    /\ Len(lineProps.displayedData) < MaxLineLen
    /\ \E value \in LineValues :
          LineRecompose([lineProps EXCEPT !.displayedData = Append(@, [v |-> value])])

LineRemoveEntry ==
    /\ Len(lineProps.displayedData) > 0
    /\ LineRecompose([lineProps EXCEPT !.displayedData = SubSeq(@, 1, Len(@) - 1)])

InitLineCompose ==
    /\ lineProps \in LineConfigs
    /\ lineComposed = lineGetComposedData(lineProps)
    /\ pieProps = Idle /\ pieComposed = Idle /\ barProps = Idle /\ barComposed = Idle
    /\ lineAnim = Idle /\ series = Idle /\ children = Idle /\ found = Idle
    /\ pieFocus = Idle

NextLineCompose ==
    \/ LineAddEntry /\ UNCHANGED <<pieProps, pieComposed, barProps, barComposed, lineAnim,
                                   series, children, found, pieFocus>>
    \/ LineRemoveEntry /\ UNCHANGED <<pieProps, pieComposed, barProps, barComposed, lineAnim,
                                      series, children, found, pieFocus>>

SpecLineCompose == InitLineCompose /\ [][NextLineCompose]_vars

----------------------------------------------------------------------------
(* findAllByType over React children *)

MaxChildren == 4

\* A child: an element of a component type, null, undefined, or a fragment
\* holding children of its own.
Element(type, key) == [tag |-> "element", type |-> type, key |-> key, kids |-> <<>>]
Blank(tag, key) == [tag |-> tag, type |-> tag, key |-> key, kids |-> <<>>]
Fragment(key, kids) == [tag |-> "fragment", type |-> "Fragment", key |-> key, kids |-> kids]

RECURSIVE toArrayNoFragments(_)
toArrayNoFragments(nodes) ==
    IF nodes = <<>> THEN <<>>
    ELSE (IF Head(nodes).tag = "element" THEN <<Head(nodes)>> ELSE <<>>)
         \o toArrayNoFragments(Tail(nodes))

\* The children as a flat array: fragments are replaced by their children,
\* null and undefined are dropped.
RECURSIVE toArray(_)
toArray(nodes) ==
    IF nodes = <<>> THEN <<>>
    ELSE (CASE Head(nodes).tag = "fragment" -> toArray(Head(nodes).kids)
            [] Head(nodes).tag = "element" -> <<Head(nodes)>>
            [] OTHER -> <<>>)
         \o toArray(Tail(nodes))

findAllByType(nodes, type) == SelectSeq(toArray(nodes), LAMBDA child : child.type = type)

\* The children of the two findAllByType tests.
TestChildrenFlat ==
    <<Element("div", ""), Element("Line", "a"), Blank("null", ""), Element("Bar", ""),
      Blank("undefined", ""), Element("Line", "b"), Element("Line", "c")>>

TestChildrenNested ==
    <<Element("Line", "a"), Element("div", ""),
      Fragment("", <<Element("Line", "b"), Element("Line", "c"), Element("Bar", ""),
                     Fragment("", <<Element("Line", "d")>>)>>)>>

RECURSIVE CountChildren(_)
CountChildren(nodes) ==
    IF nodes = <<>> THEN 0
    ELSE (IF Head(nodes).tag = "fragment" THEN CountChildren(Head(nodes).kids) ELSE 1)
         + CountChildren(Tail(nodes))

\* Children and fragments, at any depth.
RECURSIVE CountNodes(_)
CountNodes(nodes) ==
    IF nodes = <<>> THEN 0
    ELSE 1 + CountNodes(Head(nodes).kids) + CountNodes(Tail(nodes))

ComponentTypes == {"Line", "Bar", "div"}

\* The parent is rendered with one more child at the end; keys number the
\* children in document order.
FindAppendChild ==
    /\ CountNodes(children) < MaxChildren
    /\ \E child \in {Element(type, CountChildren(children) + 1) : type \in ComponentTypes}
                    \cup {Blank(tag, CountChildren(children) + 1) : tag \in {"null", "undefined"}} :
          /\ children' = Append(children, child)
          /\ found' = [found EXCEPT !.elements = findAllByType(children', found.type)]

\* The parent is rendered with its last n children inside a fragment.
FindWrapInFragment ==
    /\ CountNodes(children) < MaxChildren
    /\ \E n \in 1..Len(children) :
       LET kept == SubSeq(children, 1, Len(children) - n)
           kids == SubSeq(children, Len(children) - n + 1, Len(children))
       IN  /\ children' = Append(kept, Fragment(0, kids))
           /\ found' = [found EXCEPT !.elements = findAllByType(children', found.type)]

InitFind ==
    /\ children = <<>>
    /\ \E type \in {"Line", "Bar"} : found = [type |-> type, elements |-> findAllByType(<<>>, type)]
    /\ pieProps = Idle /\ pieComposed = Idle /\ barProps = Idle /\ barComposed = Idle
    /\ lineAnim = Idle /\ series = Idle /\ lineProps = Idle /\ lineComposed = Idle
    /\ pieFocus = Idle

NextFind ==
    \/ FindAppendChild /\ UNCHANGED <<pieProps, pieComposed, barProps, barComposed, lineAnim,
                                      series, lineProps, lineComposed, pieFocus>>
    \/ FindWrapInFragment /\ UNCHANGED <<pieProps, pieComposed, barProps, barComposed, lineAnim,
                                         series, lineProps, lineComposed, pieFocus>>

SpecFind == InitFind /\ [][NextFind]_vars

----------------------------------------------------------------------------
(* A mounted series: Line, Bar or Pie *)

MaxAnimationId == 1

Point(x, y) == [x |-> Num(x), y |-> Num(y)]
Rect(x, y, width, height) ==
    [x |-> Num(x), y |-> Num(y), width |-> Num(width), height |-> Num(height)]
SectorsOf(values, paddingAngle) ==
    getComposedData([data |-> values, startAngle |-> Num(0), endAngle |-> Num(360),
                     minAngle |-> Num(0), paddingAngle |-> Num(paddingAngle)]).sectors

\* The geometries the chart hands to a series as props.points, props.data or
\* props.sectors.
Geometries(kind) ==
    CASE kind = "Line" ->
            {<<>>, <<Point(0, 4), Point(10, 8)>>, <<Point(0, 8), Point(10, 0)>>,
             <<Point(0, 0), Point(5, 4), Point(10, 8)>>}
      [] kind = "Bar" ->
            {<<>>, <<Rect(0, 6, 8, 4)>>, <<Rect(0, 2, 8, 8)>>,
             <<Rect(0, 6, 8, 4), Rect(20, 2, 8, 8)>>}
      [] kind = "Pie" ->
            {<<>>, SectorsOf(<<Num(1), Num(1)>>, 0), SectorsOf(<<Num(1), Num(2)>>, 0),
             SectorsOf(<<Num(1), Num(0), Num(1)>>, 5)}

\* The lengths a path element can measure.
MeasuredLengths == {Num(0), Num(6)}

\* this.mainCurve when the commit hooks run: no element, an element without
\* getTotalLength, one whose getTotalLength throws, or a path that measures.
CurveDoms ==
    {[kind |-> k, length |-> Undefined] : k \in {"absent", "noMethod", "throws"}}
    \cup {[kind |-> "path", length |-> l] : l \in MeasuredLengths}

AbsentCurve == [kind |-> "absent", length |-> Undefined]

getTotalLengthUnguarded(curveDom) == curveDom.length

\* (curveDom && curveDom.getTotalLength && curveDom.getTotalLength()) || 0,
\* and 0 from the catch.
getTotalLength(curveDom) ==
    IF curveDom.kind = "path" /\ IsNumber(curveDom.length) /\ curveDom.length # Num(0)
    THEN curveDom.length
    ELSE Num(0)

lineGetDerivedStateFromPropsIdOnly(nextProps, prevState) ==
    IF nextProps.animationId # prevState.prevAnimationId
    THEN [prevState EXCEPT !.prevAnimationId = nextProps.animationId,
                           !.hasCur = TRUE, !.cur = nextProps.geometry,
                           !.hasPrev = prevState.hasCur, !.prev = prevState.cur]
    ELSE prevState

\* nextProps.isNewRef is nextProps.points !== prevState.curPoints.
lineGetDerivedStateFromProps(nextProps, prevState) ==
    IF nextProps.animationId # prevState.prevAnimationId
    THEN [prevState EXCEPT !.prevAnimationId = nextProps.animationId,
                           !.hasCur = TRUE, !.cur = nextProps.geometry,
                           !.hasPrev = prevState.hasCur, !.prev = prevState.cur]
    ELSE IF nextProps.isNewRef
    THEN [prevState EXCEPT !.hasCur = TRUE, !.cur = nextProps.geometry]
    ELSE prevState

barGetDerivedStateFromProps(nextProps, prevState) ==
    IF nextProps.animationId # prevState.prevAnimationId
    THEN [prevState EXCEPT !.prevAnimationId = nextProps.animationId,
                           !.hasCur = TRUE, !.cur = nextProps.geometry,
                           !.hasPrev = prevState.hasCur, !.prev = prevState.cur]
    ELSE IF nextProps.isNewRef
    THEN [prevState EXCEPT !.hasCur = TRUE, !.cur = nextProps.geometry]
    ELSE prevState

pieGetDerivedStateFromPropsKeepPrev(nextProps, prevState) ==
    IF prevState.prevIsAnimationActive # nextProps.isAnimationActive
    THEN [prevState EXCEPT !.prevIsAnimationActive = nextProps.isAnimationActive,
                           !.prevAnimationId = nextProps.animationId,
                           !.hasCur = TRUE, !.cur = nextProps.geometry,
                           !.hasPrev = TRUE, !.prev = <<>>,
                           !.isAnimationFinished = TRUE]
    ELSE IF nextProps.isAnimationActive /\ nextProps.animationId # prevState.prevAnimationId
    THEN [prevState EXCEPT !.prevAnimationId = nextProps.animationId,
                           !.hasCur = TRUE, !.cur = nextProps.geometry,
                           !.isAnimationFinished = TRUE]
    ELSE IF nextProps.isNewRef
    THEN [prevState EXCEPT !.hasCur = TRUE, !.cur = nextProps.geometry,
                           !.isAnimationFinished = TRUE]
    ELSE prevState

pieGetDerivedStateFromProps(nextProps, prevState) ==
    IF prevState.prevIsAnimationActive # nextProps.isAnimationActive
    THEN [prevState EXCEPT !.prevIsAnimationActive = nextProps.isAnimationActive,
                           !.prevAnimationId = nextProps.animationId,
                           !.hasCur = TRUE, !.cur = nextProps.geometry,
                           !.hasPrev = TRUE, !.prev = <<>>,
                           !.isAnimationFinished = TRUE]
    ELSE IF nextProps.isAnimationActive /\ nextProps.animationId # prevState.prevAnimationId
    THEN [prevState EXCEPT !.prevAnimationId = nextProps.animationId,
                           !.hasCur = TRUE, !.cur = nextProps.geometry,
                           !.hasPrev = prevState.hasCur, !.prev = prevState.cur,
                           !.isAnimationFinished = TRUE]
    ELSE IF nextProps.isNewRef
    THEN [prevState EXCEPT !.hasCur = TRUE, !.cur = nextProps.geometry,
                           !.isAnimationFinished = TRUE]
    ELSE prevState

getDerivedStateFromProps(kind, nextProps, prevState) ==
    CASE kind = "Line" -> lineGetDerivedStateFromProps(nextProps, prevState)
      [] kind = "Bar" -> barGetDerivedStateFromProps(nextProps, prevState)
      [] kind = "Pie" -> pieGetDerivedStateFromProps(nextProps, prevState)

\* The state each component is constructed with; prevAnimationId -1 is
\* undefined.
constructedState(kind, props) ==
    [prevAnimationId |-> IF kind = "Pie" THEN props.animationId ELSE -1,
     prevIsAnimationActive |-> IF kind = "Pie" THEN props.isAnimationActive ELSE FALSE,
     isAnimationFinished |->
         CASE kind = "Line" -> TRUE
           [] kind = "Bar" -> FALSE
           [] kind = "Pie" -> ~props.isAnimationActive,
     totalLength |-> Num(0),
     hasCur |-> FALSE, cur |-> <<>>, hasPrev |-> FALSE, prev |-> <<>>]

\* The test of renderCurve.
lineShouldAnimate(props, state) ==
    /\ props.isAnimationActive
    /\ Len(props.geometry) > 0
    /\ \/ ~state.hasPrev /\ Gt(state.totalLength, Num(0))
       \/ ~(state.hasPrev /\ state.prev = props.geometry)

barShouldAnimateIgnorePrev(props, state) ==
    props.isAnimationActive /\ Len(props.geometry) > 0

\* The test of renderRectangles.
barShouldAnimate(props, state) ==
    /\ props.isAnimationActive
    /\ Len(props.geometry) > 0
    /\ (~state.hasPrev \/ ~(state.prev = props.geometry))

\* The test of renderSectors.
pieShouldAnimate(props, state) ==
    /\ props.isAnimationActive
    /\ Len(props.geometry) > 0
    /\ (~state.hasPrev \/ ~(state.prev = props.geometry))

shouldAnimate(kind, props, state) ==
    CASE kind = "Line" -> lineShouldAnimate(props, state)
      [] kind = "Bar" -> barShouldAnimate(props, state)
      [] kind = "Pie" -> pieShouldAnimate(props, state)

barStepRectTopAnchored(props, state, index, t) ==
    LET entry == props.geometry[index]
    IN  IF state.hasPrev /\ index <= Len(state.prev)
        THEN LET prev == state.prev[index]
             IN  [x |-> interpolateNumber(prev.x, entry.x, t),
                  y |-> interpolateNumber(prev.y, entry.y, t),
                  width |-> interpolateNumber(prev.width, entry.width, t),
                  height |-> interpolateNumber(prev.height, entry.height, t)]
        ELSE IF props.layout = "horizontal"
        THEN [entry EXCEPT !.height = interpolateNumber(Num(0), entry.height, t)]
        ELSE [entry EXCEPT !.width = interpolateNumber(Num(0), entry.width, t)]

\* The data.map callback of renderRectanglesWithAnimation.
barStepRect(props, state, index, t) ==
    LET entry == props.geometry[index]
    IN  IF state.hasPrev /\ index <= Len(state.prev)
        THEN LET prev == state.prev[index]
             IN  [x |-> interpolateNumber(prev.x, entry.x, t),
                  y |-> interpolateNumber(prev.y, entry.y, t),
                  width |-> interpolateNumber(prev.width, entry.width, t),
                  height |-> interpolateNumber(prev.height, entry.height, t)]
        ELSE IF props.layout = "horizontal"
        THEN LET h == interpolateNumber(Num(0), entry.height, t)
             IN  [entry EXCEPT !.y = Sub(Add(entry.y, entry.height), h), !.height = h]
        ELSE [entry EXCEPT !.width = interpolateNumber(Num(0), entry.width, t)]

RECURSIVE pieStepFromPadFirst(_, _, _, _, _)
pieStepFromPadFirst(props, state, index, curAngle, t) ==
    IF index > Len(props.geometry) THEN <<>>
    ELSE
        LET entry == props.geometry[index]
            from == IF state.hasPrev /\ index <= Len(state.prev)
                    THEN Sub(state.prev[index].endAngle, state.prev[index].startAngle)
                    ELSE Num(0)
            angle == interpolateNumber(from, Sub(entry.endAngle, entry.startAngle), t)
            latest == [entry EXCEPT !.startAngle = Add(curAngle, entry.paddingAngle),
                                    !.endAngle = Add(Add(curAngle, angle), entry.paddingAngle)]
        IN  <<latest>> \o pieStepFromPadFirst(props, state, index + 1, latest.endAngle, t)

\* The sectors.forEach callback of renderSectorsWithAnimation, from index on
\* with the running curAngle.
RECURSIVE pieStepFrom(_, _, _, _, _)
pieStepFrom(props, state, index, curAngle, t) ==
    IF index > Len(props.geometry) THEN <<>>
    ELSE
        LET entry == props.geometry[index]
            paddingAngle == IF index > 1 THEN entry.paddingAngle ELSE Num(0)
            from == IF state.hasPrev /\ index <= Len(state.prev)
                    THEN Sub(state.prev[index].endAngle, state.prev[index].startAngle)
                    ELSE Num(0)
            angle == interpolateNumber(from, Sub(entry.endAngle, entry.startAngle), t)
            latest == [entry EXCEPT !.startAngle = Add(curAngle, paddingAngle),
                                    !.endAngle = Add(Add(curAngle, angle), paddingAngle)]
        IN  <<latest>> \o pieStepFrom(props, state, index + 1, latest.endAngle, t)

NoDasharray == [sep |-> "", unit |-> "", values |-> <<>>]

\* The frame the render callback of the series' Animate draws at progress t.
animatedFrame(kind, props, state, t) ==
    CASE kind = "Line" ->
            LET f == lineFrame([hasPrevPoints |-> state.hasPrev, prevPoints |-> state.prev,
                                points |-> props.geometry, totalLength |-> state.totalLength,
                                strokeDasharray |-> <<>>, animateNewValues |-> TRUE,
                                width |-> Num(100), height |-> Num(50)], t)
            IN  [animated |-> TRUE, geometry |-> f.points, strokeDasharray |-> f.strokeDasharray]
      [] kind = "Bar" ->
            [animated |-> TRUE,
             geometry |-> [i \in 1..Len(props.geometry) |-> barStepRect(props, state, i, t)],
             strokeDasharray |-> NoDasharray]
      [] kind = "Pie" ->
            [animated |-> TRUE,
             geometry |-> pieStepFrom(props, state, 1, props.geometry[1].startAngle, t),
             strokeDasharray |-> NoDasharray]

staticFrame(props) ==
    [animated |-> FALSE, geometry |-> props.geometry, strokeDasharray |-> NoDasharray]

NoAnimate == [phase |-> "none", key |-> 0, k |-> 0]

\* The Animate element after a render of the series: kept, with its progress,
\* when it was there with the same key; mounted anew, before its start, when
\* not; gone when the series renders statically.
animateAfterRender(kind, props, state, animate) ==
    IF ~shouldAnimate(kind, props, state) THEN NoAnimate
    ELSE IF animate.phase # "none" /\ animate.key = props.animationId THEN animate
    ELSE [phase |-> "pending", key |-> props.animationId, k |-> 0]

frameAfterRender(kind, props, state, animate) ==
    IF animate.phase = "none" THEN staticFrame(props)
    ELSE animatedFrame(kind, props, state, Progress(animate.k))

\* componentDidMount and componentDidUpdate of Line store the measured length
\* when the animation is active; Bar and Pie measure nothing.
stateAfterCommit(kind, props, state, curveDom) ==
    IF kind = "Line" /\ props.isAnimationActive
    THEN [state EXCEPT !.totalLength = getTotalLength(curveDom)]
    ELSE state

\* The user's callback the animation hooks call after their setState, when the
\* props supply one.
userCallback(props, event) ==
    IF ~props.hasCallbacks THEN "none"
    ELSE IF event = "start" THEN "onAnimationStart"
    ELSE IF event = "end" THEN "onAnimationEnd"
    ELSE "none"

\* Dots, labels, label lists and error bars are drawn unless the animation is
\* active and not finished, and nothing is drawn for an empty geometry.
decorationsRendered(props, state) ==
    /\ Len(props.geometry) > 0
    /\ ~(props.isAnimationActive /\ ~state.isAnimationFinished)

\* The three classes are PureComponents: the component renders, and its
\* commit hook runs, on mount, on new props, and after a setState of an
\* animation hook that changed the state.
componentUpdated(s, state1, event) ==
    event \in {"mount", "update"} \/ state1 # s.state

commitMeasurementsNewDataOnly(kind, props, committed, state1, state2) ==
    IF kind = "Line" /\ props.isAnimationActive /\ committed /\ props.isNewRef
    THEN (IF state2.totalLength # state1.totalLength THEN 2 ELSE 1)
    ELSE 0

\* The number of getTotalLength calls of a render pass: one by the commit hook
\* of an active Line, and one more by the componentDidUpdate that follows the
\* setState of a changed totalLength.
commitMeasurements(kind, props, committed, state1, state2) ==
    IF kind = "Line" /\ props.isAnimationActive /\ committed
    THEN (IF state2.totalLength # state1.totalLength THEN 2 ELSE 1)
    ELSE 0

\* A render pass of the series: getDerivedStateFromProps and render, then the
\* commit hooks and the render their setState causes.  The path measures the
\* same in both.
renderPass(s, props, state0, animate0, curveDom, event) ==
    LET state1 == getDerivedStateFromProps(s.kind, props, state0)
        committed == componentUpdated(s, state1, event)
        animate1 == animateAfterRender(s.kind, props, state1, animate0)
        state2 == IF committed THEN stateAfterCommit(s.kind, props, state1, curveDom)
                  ELSE state1
        animate2 == animateAfterRender(s.kind, props, state2, animate1)
    IN  [kind |-> s.kind, props |-> props, state |-> state2, animate |-> animate2,
         frame |-> frameAfterRender(s.kind, props, state2, animate2), event |-> event,
         called |-> userCallback(props, event),
         mainCurve |-> IF committed THEN curveDom ELSE s.mainCurve,
         measurements |-> commitMeasurements(s.kind, props, committed, state1, state2)]

SeriesKinds == {"Line", "Bar", "Pie"}

Layouts(kind) == IF kind = "Bar" THEN {"horizontal", "vertical"} ELSE {"horizontal"}

\* Only an active Line measures its path.
Measurements(kind, active) ==
    IF kind = "Line" /\ active THEN CurveDoms ELSE {AbsentCurve}

InitSeries ==
    /\ \E kind \in SeriesKinds, active \in BOOLEAN, hasCallbacks \in BOOLEAN :
       \E g \in Geometries(kind), layout \in Layouts(kind),
          curveDom \in Measurements(kind, active) :
          LET props == [animationId |-> 0, isAnimationActive |-> active, geometry |-> g,
                        isNewRef |-> TRUE, layout |-> layout, hasCallbacks |-> hasCallbacks]
          IN  series = renderPass([kind |-> kind], props, constructedState(kind, props),
                                  NoAnimate, curveDom, "mount")
    /\ pieProps = Idle /\ pieComposed = Idle /\ barProps = Idle /\ barComposed = Idle
    /\ lineAnim = Idle
    /\ lineProps = Idle /\ lineComposed = Idle /\ children = Idle /\ found = Idle
    /\ pieFocus = Idle

\* A setState of the series renders it with the props it has: their geometry
\* is not the object the state holds as current only if the state holds
\* another one.
propsGeometryIsNew(s) == ~(s.state.hasCur /\ s.props.geometry = s.state.cur)

\* The chart re-renders the series with new props: the animationId may have
\* been raised, isAnimationActive switched, and the geometry is the object
\* the state holds as current or a new one of any content.
SeriesUpdateProps ==
    /\ \E id \in {series.props.animationId, series.props.animationId + 1},
          active \in BOOLEAN, isNewRef \in BOOLEAN :
       \E g \in Geometries(series.kind), curveDom \in Measurements(series.kind, active) :
          /\ id <= MaxAnimationId
          /\ ~isNewRef => (series.state.hasCur /\ g = series.state.cur)
          /\ series' = renderPass(series,
                                  [series.props EXCEPT !.animationId = id,
                                                       !.isAnimationActive = active,
                                                       !.geometry = g, !.isNewRef = isNewRef],
                                  series.state, series.animate, curveDom, "update")
    /\ UNCHANGED <<pieProps, pieComposed, barProps, barComposed, lineAnim,
                 lineProps, lineComposed, children, found, pieFocus>>

\* handleAnimationStart: the scheduler begins the animation, and the setState
\* re-renders the series with the props it has.
SeriesAnimationStart ==
    /\ series.animate.phase = "pending"
    /\ \E curveDom \in Measurements(series.kind, series.props.isAnimationActive) :
          series' = renderPass(series,
                               [series.props EXCEPT !.isNewRef = propsGeometryIsNew(series)],
                               [series.state EXCEPT !.isAnimationFinished = FALSE],
                               [series.animate EXCEPT !.phase = "running"], curveDom, "start")
    /\ UNCHANGED <<pieProps, pieComposed, barProps, barComposed, lineAnim,
                 lineProps, lineComposed, children, found, pieFocus>>

\* The scheduler delivers the next, larger progress value to the render
\* callback: Animate renders its child again, the series itself does not
\* update.
SeriesAnimationTick ==
    /\ series.animate.phase = "running"
    /\ series.animate.k < TDen
    /\ \E k \in (series.animate.k + 1)..TDen :
          series' = [series EXCEPT !.animate.k = k,
                                   !.frame = animatedFrame(series.kind, series.props,
                                                           series.state, Progress(k)),
                                   !.event = "tick", !.called = "none",
                                   !.measurements = 0]
    /\ UNCHANGED <<pieProps, pieComposed, barProps, barComposed, lineAnim,
                 lineProps, lineComposed, children, found, pieFocus>>

\* handleAnimationEnd: the scheduler reports the end at t = 1.
SeriesAnimationEnd ==
    /\ series.animate.phase = "running"
    /\ series.animate.k = TDen
    /\ \E curveDom \in Measurements(series.kind, series.props.isAnimationActive) :
          series' = renderPass(series,
                               [series.props EXCEPT !.isNewRef = propsGeometryIsNew(series)],
                               [series.state EXCEPT !.isAnimationFinished = TRUE],
                               [series.animate EXCEPT !.phase = "ended"], curveDom, "end")
    /\ UNCHANGED <<pieProps, pieComposed, barProps, barComposed, lineAnim,
                 lineProps, lineComposed, children, found, pieFocus>>

NextSeries ==
    \/ SeriesUpdateProps
    \/ SeriesAnimationStart
    \/ SeriesAnimationTick
    \/ SeriesAnimationEnd

SpecSeries == InitSeries /\ [][NextSeries]_vars

----------------------------------------------------------------------------
(* Pie: keyboard handling *)

MaxSectorRefs == 5

\* e.key of a keydown event: the three keys the handler knows, and any other.
Keys == {"ArrowLeft", "ArrowRight", "Escape", "Enter"}

NoFocus == -1

onkeydownArrowRightNoWrap(f, key, altKey) ==
    LET length == f.sectorRefs
    IN  IF altKey THEN f
        ELSE CASE key = "ArrowLeft" ->
                      LET next == (f.sectorToFocus + 1) % length
                      IN  [f EXCEPT !.sectorToFocus = next, !.focused = next]
               [] key = "ArrowRight" ->
                      LET next == f.sectorToFocus - 1
                      IN  [f EXCEPT !.sectorToFocus = next, !.focused = next]
               [] key = "Escape" ->
                      [f EXCEPT !.sectorToFocus = 0,
                                !.focused = IF @ = f.sectorToFocus THEN NoFocus ELSE @]
               [] OTHER -> f

\* pieRef.onkeydown; f.sectorRefs is this.sectorRefs.length, sectors counted
\* from 0; f.focused is the sector that holds the DOM focus.
onkeydown(f, key, altKey) ==
    LET length == f.sectorRefs
    IN  IF altKey THEN f
        ELSE CASE key = "ArrowLeft" ->
                      LET next == (f.sectorToFocus + 1) % length
                      IN  [f EXCEPT !.sectorToFocus = next, !.focused = next]
               [] key = "ArrowRight" ->
                      LET decremented == f.sectorToFocus - 1
                          next == IF decremented < 0 THEN length - 1
                                  ELSE decremented % length
                      IN  [f EXCEPT !.sectorToFocus = next, !.focused = next]
               [] key = "Escape" ->
                      [f EXCEPT !.sectorToFocus = 0,
                                !.focused = IF @ = f.sectorToFocus THEN NoFocus ELSE @]
               [] OTHER -> f

\* The pie is mounted with sectors drawn: their refs are registered, the
\* constructor has set sectorToFocus to 0 and no sector holds the focus.
InitPieFocus ==
    /\ \E length \in 1..MaxSectorRefs :
          pieFocus = [sectorRefs |-> length, sectorToFocus |-> 0, focused |-> NoFocus,
                      key |-> "none", altKey |-> FALSE, before |-> 0]
    /\ pieProps = Idle /\ pieComposed = Idle /\ barProps = Idle /\ barComposed = Idle
    /\ lineAnim = Idle /\ series = Idle /\ lineProps = Idle /\ lineComposed = Idle
    /\ children = Idle /\ found = Idle

\* A key goes down on the pie, with or without Alt.
PieKeyDown ==
    /\ \E key \in Keys, altKey \in BOOLEAN :
          pieFocus' = [onkeydown(pieFocus, key, altKey) EXCEPT
                          !.key = key, !.altKey = altKey, !.before = pieFocus.sectorToFocus]
    /\ UNCHANGED <<pieProps, pieComposed, barProps, barComposed, lineAnim, series,
                 lineProps, lineComposed, children, found>>

\* A render draws a sector in a new element: its ref is pushed, and no ref is
\* ever removed.
PieRegisterSectorRef ==
    /\ pieFocus.sectorRefs < MaxSectorRefs
    /\ pieFocus' = [pieFocus EXCEPT !.sectorRefs = @ + 1, !.key = "none", !.altKey = FALSE,
                                    !.before = pieFocus.sectorToFocus]
    /\ UNCHANGED <<pieProps, pieComposed, barProps, barComposed, lineAnim, series,
                 lineProps, lineComposed, children, found>>

NextPieFocus ==
    \/ PieKeyDown
    \/ PieRegisterSectorRef

SpecPieFocus == InitPieFocus /\ [][NextPieFocus]_vars

----------------------------------------------------------------------------
(* Claims about Pie.getComposedData *)

PieSweeps == [i \in 1..Len(pieComposed.sectors) |->
                 MathAbs(Sub(pieComposed.sectors[i].endAngle, pieComposed.sectors[i].startAngle))]

PieCappedSweep == MathMin(MathAbs(Sub(pieProps.endAngle, pieProps.startAngle)), Num(360))

PieNonZeroEntries == {i \in 1..Len(pieProps.data) : pieProps.data[i] # Num(0)}

\* Total padding as the claim words it.
PieClaimedPadding ==
    Mul(pieProps.paddingAngle,
        Num(IF Ge(PieCappedSweep, Num(360))
            THEN Cardinality(PieNonZeroEntries)
            ELSE Cardinality(PieNonZeroEntries) - 1))

PieCoverageHolds == Add(SumSeq(PieSweeps), PieClaimedPadding) = PieCappedSweep

PieMinAngleHolds ==
    \A i \in 1..Len(pieComposed.sectors) :
        pieComposed.sectors[i].value # Num(0) => Ge(PieSweeps[i], MathAbs(pieProps.minAngle))

\* No entry has a negative value, paddingAngle is not negative, and the angle
\* budget left after minimum angles and padding is not negative.
PieWellFormed ==
    /\ \A i \in 1..Len(pieProps.data) : ~Lt(pieProps.data[i], Num(0))
    /\ Ge(pieProps.paddingAngle, Num(0))
    /\ Ge(realTotalAngle(pieProps), Num(0))

\* C1 as stated: whenever sum > 0 (sectors are produced), the sector sweeps
\* plus the total padding add up to min(|endAngle - startAngle|, 360).
C1_Original == pieComposed.hasSectors => PieCoverageHolds

\* C1 amended: the sweeps plus the total padding add up to
\* min(|endAngle - startAngle|, 360) when sum > 0, no value is negative,
\* paddingAngle >= 0 and the angle budget is >= 0.
C1_PieAngleCoverage == pieComposed.hasSectors /\ PieWellFormed => PieCoverageHolds

\* Sectors of a well-formed input with padding between several non-zero
\* entries, a minimum angle and a zero-value entry.
C1_Witness ==
    /\ pieComposed.hasSectors /\ PieWellFormed /\ PieCoverageHolds
    /\ Cardinality(PieNonZeroEntries) >= 2
    /\ Cardinality(PieNonZeroEntries) < Len(pieProps.data)
    /\ pieProps.paddingAngle = Num(5)
    /\ pieProps.minAngle = Num(2)
    /\ PieCappedSweep = Num(270)

----------------------------------------------------------------------------
(* Claims about Bar.getComposedData *)

\* The pixel extent along the value axis before normalisation and the minimum
\* point size: baseline minus value pixel in layout horizontal, value minus
\* baseline pixel in layout vertical.
BarNaturalExtent(i) ==
    IF barProps.layout = "horizontal"
    THEN Sub(scale(barProps, barProps.data[i][1]), scale(barProps, barProps.data[i][2]))
    ELSE Sub(scale(barProps, barProps.data[i][2]), scale(barProps, barProps.data[i][1]))

BarRenderedExtent(i) ==
    IF barProps.layout = "horizontal" THEN barComposed[i].height ELSE barComposed[i].width

BarBelowMinPoint(i) ==
    /\ IsNumber(BarNaturalExtent(i))
    /\ Lt(MathAbs(BarNaturalExtent(i)), MathAbs(Num(barProps.minPointSize)))

\* C3: a bar whose natural extent e has |e| < minPointSize is rendered with an
\* extent of absolute value minPointSize in the direction of e (of
\* minPointSize when e = 0), and its baseline end stays where it was:
\* y + height in layout horizontal, x in layout vertical.
C3_BarMinPointSize ==
    \A i \in 1..Len(barComposed) :
        BarBelowMinPoint(i) =>
            /\ MathAbs(BarRenderedExtent(i)) = MathAbs(Num(barProps.minPointSize))
            /\ mathSign(BarRenderedExtent(i)) =
                   mathSign(IF BarNaturalExtent(i) = Num(0)
                            THEN Num(barProps.minPointSize) ELSE BarNaturalExtent(i))
            /\ IF barProps.layout = "horizontal"
               THEN Add(barComposed[i].y, barComposed[i].height) =
                        scale(barProps, barProps.data[i][1])
               ELSE barComposed[i].x = scale(barProps, barProps.data[i][1])

\* A bar with a negative natural extent shorter than minPointSize, stretched.
C3_Witness ==
    \E i \in 1..Len(barComposed) :
        /\ BarBelowMinPoint(i)
        /\ Lt(BarNaturalExtent(i), Num(0))
        /\ BarRenderedExtent(i) = Num(-3)
        /\ barProps.minPointSize = 3

\* C4: every rectangle has a finite numeric width and height in both layouts.
C4_Original ==
    \A i \in 1..Len(barComposed) :
        IsNumber(barComposed[i].width) /\ IsNumber(barComposed[i].height)

----------------------------------------------------------------------------
(* Claims about the Line render callback *)

DashFrame == lineAnim.frame.dash
DashValues == lineAnim.frame.strokeDasharray.values
DashPattern == parseDashTokens(lineAnim.c.strokeDasharray)

\* The prop holds a pattern of non-negative numbers with a positive sum.
DashPatternPositive ==
    /\ Len(DashPattern) > 0
    /\ \A i \in 1..Len(DashPattern) : Ge(DashPattern[i], Num(0))
    /\ Gt(SumSeq(DashPattern), Num(0))

\* C5: for a custom pattern of non-negative numbers with positive sum and a
\* revealed length between 0 and totalLength, the values of the dasharray add
\* up to totalLength; pattern [4,2], totalLength 100, revealLength 27 gives
\* four whole periods, the partial dash 3 and the gap 73.
C5_DashSum ==
    /\ DashFrame /\ DashPatternPositive => SumSeq(DashValues) = lineAnim.c.totalLength
    /\ getStrokeDasharray(Num(27), Num(100), <<Num(4), Num(2)>>).values =
           <<Num(4), Num(2), Num(4), Num(2), Num(4), Num(2), Num(4), Num(2), Num(3), Num(73)>>

\* Pattern [2,1] revealed to 15/4 of 5: one whole period, then 3/4 and 5/4.
C5_Witness ==
    /\ DashFrame /\ DashPatternPositive
    /\ lineAnim.c.strokeDasharray = <<"2", "1">>
    /\ lineAnim.c.totalLength = Num(5)
    /\ lineAnim.k = 3
    /\ DashValues = <<Num(2), Num(1), Norm(3, 4), Norm(5, 4)>>

\* C6: in the dash reveal, with or without a custom pattern, at t = 0 the
\* revealed length is 0, every dash entry is 0 and the last entry is a gap of
\* totalLength; at t = 1 the revealed length is totalLength and the last
\* entry is a gap of 0.
C6_DashBoundary ==
    DashFrame =>
        /\ Len(DashValues) % 2 = 0
        /\ lineAnim.k = 0 =>
              /\ lineAnim.frame.curLength = Num(0)
              /\ \A i \in 1..Len(DashValues) : i % 2 = 1 => DashValues[i] = Num(0)
              /\ DashValues[Len(DashValues)] = lineAnim.c.totalLength
        /\ lineAnim.k = TDen =>
              /\ lineAnim.frame.curLength = lineAnim.c.totalLength
              /\ DashValues[Len(DashValues)] = Num(0)

\* The end of a reveal of a path of positive length under a custom pattern.
C6_Witness ==
    /\ DashFrame /\ DashPatternPositive
    /\ lineAnim.k = TDen
    /\ Gt(lineAnim.c.totalLength, Num(0))
    /\ DashValues[Len(DashValues)] = Num(0)

----------------------------------------------------------------------------
(* Claims about the series lifecycle *)

SeriesIdChanged == series'.props.animationId # series.state.prevAnimationId

PieToggled ==
    /\ series.kind = "Pie"
    /\ series'.props.isAnimationActive # series.state.prevIsAnimationActive

\* C8, as the specification states it: a render of a Line, Bar or Pie whose
\* isAnimationActive is false, or whose incoming geometry is deep-equal to the
\* geometry on display before it, draws the geometry statically.
C8_Original ==
    [][(/\ series'.event = "update"
        /\ \/ ~series'.props.isAnimationActive
           \/ series'.props.geometry = series.frame.geometry)
       => ~series'.frame.animated]_vars

\* C8: a Line, Bar or Pie draws its geometry statically, without the
\* interpolation callback, whenever isAnimationActive is false or the incoming
\* geometry is deep-equal to the previous geometry the series holds in its
\* state; the geometry drawn is then the incoming one.
C8_EngineBypass ==
    (\/ ~series.props.isAnimationActive
     \/ series.state.hasPrev /\ series.state.prev = series.props.geometry)
    => /\ ~series.frame.animated
       /\ series.frame.geometry = series.props.geometry

\* An active series re-rendered with a non-empty geometry deep-equal to its
\* previous geometry.
C8_Witness ==
    /\ series.event = "update"
    /\ series.props.isAnimationActive
    /\ series.state.hasPrev
    /\ series.state.prev = series.props.geometry
    /\ Len(series.props.geometry) > 0
    /\ ~series.frame.animated

\* C9, as the specification states it: every render that changes the geometry
\* moves the old current geometry to the previous one and stores the new one.
C9_Original ==
    [][series'.props.geometry # series.props.geometry
       => /\ series'.state.hasPrev
          /\ series'.state.prev = series.state.cur
          /\ series'.state.cur = series'.props.geometry]_vars

\* C9: a series is mounted with no previous geometry.  A later render always
\* stores the incoming geometry as the current one; it moves the old current
\* geometry to the previous one exactly when the animationId differs from the
\* stored one (for Pie: and isAnimationActive is true and unchanged); a Pie
\* whose isAnimationActive is switched gets the empty sequence as previous
\* geometry; every other render leaves the previous geometry as it is.
C9_GeometryRotation ==
    /\ series.event = "mount" => ~series.state.hasPrev
    /\ [][/\ series'.state.hasCur
          /\ series'.state.cur = series'.props.geometry
          /\ IF PieToggled
             THEN series'.state.hasPrev /\ series'.state.prev = <<>>
             ELSE IF SeriesIdChanged /\ (series.kind = "Pie" => series'.props.isAnimationActive)
             THEN /\ series'.state.hasPrev = series.state.hasCur
                  /\ series'.state.prev = series.state.cur
             ELSE /\ series'.state.hasPrev = series.state.hasPrev
                  /\ series'.state.prev = series.state.prev]_vars

\* A series whose previous geometry is the non-empty geometry it had before
\* the animationId was raised.
C9_Witness ==
    /\ series.event = "update"
    /\ series.state.hasPrev
    /\ Len(series.state.prev) > 0
    /\ series.state.prev # series.state.cur
    /\ series.props.animationId > 0

\* C10, as the specification states it: when the geometry is replaced under a
\* new animationId while the running animation is at 0 < t < 1, the previous
\* geometry becomes the frame on display, and the first frame of the new
\* transition is that frame.
C10_Original ==
    [][(/\ series.animate.phase = "running"
        /\ series.animate.k \in 1..(TDen - 1)
        /\ series'.event = "update"
        /\ series.props.isAnimationActive /\ series'.props.isAnimationActive
        /\ series'.props.animationId # series.props.animationId
        /\ series'.props.geometry # series.props.geometry
        /\ Len(series'.props.geometry) = Len(series.props.geometry))
       => /\ series'.state.hasPrev
          /\ series'.state.prev = series.frame.geometry
          /\ series'.frame.geometry = series.frame.geometry]_vars

AnimationHooksNotify ==
    /\ series.event = "start"
       => /\ ~series.state.isAnimationFinished
          /\ series.props.hasCallbacks => series.called = "onAnimationStart"
    /\ series.event = "end"
       => /\ series.state.isAnimationFinished
          /\ series.props.hasCallbacks => series.called = "onAnimationEnd"

AnimationInFlight ==
    series.props.isAnimationActive /\ series.animate.phase = "running"

\* C11, as the specification states it: the start hook clears the finished
\* flag and the end hook sets it, each then calling the user's callback when
\* one is supplied; and while isAnimationActive is true and the animation has
\* started and not ended, labels, dots and error bars are not drawn, whatever
\* props arrived in between.
C11_Original ==
    /\ AnimationHooksNotify
    /\ AnimationInFlight => ~decorationsRendered(series.props, series.state)

----------------------------------------------------------------------------
(* Claims about a pie whose values do not sum to a positive number *)

RECURSIVE PieNumericTotal(_)
PieNumericTotal(values) ==
    IF values = <<>> THEN 0
    ELSE (IF values[1].d = 1 THEN values[1].n ELSE 0) + PieNumericTotal(Tail(values))

\* C12: for non-empty pie data whose numeric values sum to 0 or less,
\* Pie.getComposedData returns a result (not null) whose sectors are absent,
\* and Pie.render returns null for it.
C12_PieNoSectors ==
    (Len(pieProps.data) > 0 /\ PieNumericTotal(pieProps.data) <= 0)
    => /\ ~pieComposed.isNull
       /\ ~pieComposed.hasSectors
       /\ pieRenderIsNull(pieComposed)

\* Three entries, a positive one among them, that sum to 0: no sectors.
C12_Witness ==
    /\ Len(pieProps.data) = 3
    /\ \E i \in 1..3 : Gt(pieProps.data[i], Num(0))
    /\ PieNumericTotal(pieProps.data) = 0
    /\ ~pieComposed.hasSectors
    /\ pieRenderIsNull(pieComposed)

----------------------------------------------------------------------------
(* Claims about Line.getTotalLength *)

\* C13: the length an active Line stores after a commit is 0 when its curve
\* element is absent, has no getTotalLength or getTotalLength throws, and the
\* measured length when the path measures; no outcome stops the render pass.
C13_TotalLength ==
    (series.kind = "Line" /\ series.props.isAnimationActive)
    => series.state.totalLength =
           (IF series.mainCurve.kind = "path" THEN series.mainCurve.length ELSE Num(0))

\* A Line that had measured its path and whose next measurement throws.
C13_Witness ==
    /\ series.kind = "Line"
    /\ series.props.isAnimationActive
    /\ series.event = "update"
    /\ series.mainCurve.kind = "throws"
    /\ series.state.totalLength = Num(0)
    /\ series.frame.animated

----------------------------------------------------------------------------
(* Claims about Line.getComposedData *)

LineValueCoordinate(i) ==
    IF lineProps.layout = "horizontal" THEN lineComposed.points[i].y
    ELSE lineComposed.points[i].x

LineCategoryCoordinate(i) ==
    IF lineProps.layout = "horizontal" THEN lineComposed.points[i].x
    ELSE lineComposed.points[i].y

LineValueMissing(i) ==
    lineProps.displayedData[i].v \in {Null, Undefined}

LineExampleInput ==
    /\ lineProps.displayedData = <<[v |-> Num(1)], [v |-> Num(3)], [v |-> Num(2)]>>
    /\ lineProps.layout = "horizontal"
    /\ lineProps.bandSize = Num(0)
    /\ lineProps.valueAxis = [offset |-> 100, slope |-> -10]

\* C14: Line.getComposedData returns one point per displayed datum, in input
\* order.  The category coordinate (x in horizontal layout, y in vertical) is
\* the entry's category coordinate; the other coordinate is null when the
\* value is missing and the value axis' scale of the value when not, so a
\* coordinate is null exactly when the value is missing.  Values 1, 3, 2 on
\* ticks 0, 10, 20 with y(v) = 100 - 10v give (0,90), (10,70), (20,80).
C14_LineCompose ==
    /\ Len(lineComposed.points) = Len(lineProps.displayedData)
    /\ \A i \in 1..Len(lineComposed.points) :
          /\ lineComposed.points[i].payload = lineProps.displayedData[i]
          /\ lineComposed.points[i].value = lineProps.displayedData[i].v
          /\ LineCategoryCoordinate(i) = Add(Num(10 * (i - 1)), Div(lineProps.bandSize, Num(2)))
          /\ LineValueCoordinate(i) = Null <=> LineValueMissing(i)
          /\ LineCategoryCoordinate(i) # Null
          /\ ~LineValueMissing(i)
             => LineValueCoordinate(i) = lineScale(lineProps.valueAxis, lineProps.displayedData[i].v)
    /\ LineExampleInput
       => [i \in 1..3 |-> <<lineComposed.points[i].x, lineComposed.points[i].y>>]
          = <<(<<Num(0), Num(90)>>), (<<Num(10), Num(70)>>), (<<Num(20), Num(80)>>)>>

\* Vertical layout, a missing value between two present ones.
C14_Witness ==
    /\ lineProps.layout = "vertical"
    /\ Len(lineComposed.points) = 3
    /\ lineComposed.points[1].x = Num(90)
    /\ lineComposed.points[2].x = Null
    /\ lineComposed.points[2].y # Null
    /\ lineComposed.points[3].x # Null

----------------------------------------------------------------------------
(* Claims about findAllByType *)

\* The elements anywhere in the children, inside fragments at any depth.
RECURSIVE ElementsIn(_)
ElementsIn(nodes) ==
    UNION {IF nodes[i].tag = "fragment" THEN ElementsIn(nodes[i].kids)
           ELSE IF nodes[i].tag = "element" THEN {nodes[i]} ELSE {} : i \in 1..Len(nodes)}

FoundKeys == [i \in 1..Len(found.elements) |-> found.elements[i].key]

\* C15: findAllByType(children, Type) returns the elements of type Type among
\* the children, those inside fragments at any depth included, each once and
\* in document order, and nothing else: no null, no undefined, no element of
\* another type.  On the children of the two tests it returns the Lines a, b,
\* c and a, b, c, d.
C15_FindAllByType ==
    /\ \A i \in 1..Len(found.elements) :
          found.elements[i].tag = "element" /\ found.elements[i].type = found.type
    /\ \A i, j \in 1..Len(found.elements) : i < j => FoundKeys[i] < FoundKeys[j]
    /\ {found.elements[i] : i \in 1..Len(found.elements)}
       = {child \in ElementsIn(children) : child.type = found.type}
    /\ LET flat == findAllByType(TestChildrenFlat, "Line")
           nested == findAllByType(TestChildrenNested, "Line")
       IN  /\ [i \in 1..Len(flat) |-> flat[i].key] = <<"a", "b", "c">>
           /\ [i \in 1..Len(nested) |-> nested[i].key] = <<"a", "b", "c", "d">>

\* A fragment holding a null and a fragment with a Line: the Line is found.
C15_Witness ==
    /\ found.type = "Line"
    /\ Len(found.elements) = 1
    /\ Len(children) = 1
    /\ children[1].tag = "fragment"
    /\ Len(children[1].kids) = 2
    /\ children[1].kids[1].tag = "null"
    /\ children[1].kids[2].tag = "fragment"

----------------------------------------------------------------------------
(* Claims about the form of the dasharray *)

DashUnitLength == SumSeq(DashPattern)

DashHasUnit == Len(DashPattern) > 0 /\ IsNumber(DashUnitLength) /\ DashUnitLength # Num(0)

DashRest == Sub(lineAnim.c.totalLength, lineAnim.frame.curLength)

\* The running sum of the first i pattern entries.
DashPrefix(i) == SumSeq(SubSeq(DashPattern, 1, i))

\* The partial period: the pattern up to the first entry whose running sum
\* exceeds the remainder, that entry replaced by what is left of the remainder.
DashPartialPeriod ==
    LET remainder == JsMod(lineAnim.frame.curLength, DashUnitLength)
        over == {i \in 1..Len(DashPattern) : Gt(DashPrefix(i), remainder)}
    IN  IF over = {} THEN <<>>
        ELSE LET cut == CHOOSE i \in over : \A j \in over : i <= j
             IN  Append(SubSeq(DashPattern, 1, cut - 1), Sub(remainder, DashPrefix(cut - 1)))

\* unit repeated floor(revealLength / unitLength) times, then the partial
\* period, then the final gap.
DashOfUnit(unit) ==
    LET count == MathFloor(Div(lineAnim.frame.curLength, DashUnitLength)).n
        whole == [k \in 1..(count * Len(unit)) |-> unit[((k - 1) % Len(unit)) + 1]]
    IN  whole \o DashPartialPeriod
        \o (IF Len(DashPartialPeriod) % 2 = 0 THEN <<Num(0), DashRest>> ELSE <<DashRest>>)

DashJoinedPx ==
    lineAnim.frame.strokeDasharray.sep = ", " /\ lineAnim.frame.strokeDasharray.unit = "px"

\* C16, as the specification states it: for a custom pattern with non-zero
\* unit length the dasharray is the pattern itself repeated
\* floor(revealLength / unitLength) times, the partial period and the final
\* gap, each value with px and joined by commas.
C16_Original ==
    (DashFrame /\ DashHasUnit) => (DashValues = DashOfUnit(DashPattern) /\ DashJoinedPx)

\* C16: as above, but the unit that is repeated is the pattern with a 0
\* appended when the pattern has an odd number of entries.
C16_DashForm ==
    (DashFrame /\ DashHasUnit)
    => /\ DashValues = DashOfUnit(IF Len(DashPattern) % 2 = 0 THEN DashPattern
                                  ELSE Append(DashPattern, Num(0)))
       /\ DashJoinedPx

\* Pattern [2] revealed to 5/2 of 5: one period 2, 0, then 1/2 and the gap 5/2.
C16_Witness ==
    /\ DashFrame
    /\ lineAnim.c.strokeDasharray = <<"2">>
    /\ lineAnim.c.totalLength = Num(5)
    /\ lineAnim.k = 2
    /\ DashValues = <<Num(2), Num(0), Norm(1, 2), Norm(5, 2)>>

----------------------------------------------------------------------------
(* Claims about the growth of a new bar *)

BarFrameShown == series.kind = "Bar" /\ series.frame.animated

\* The entries of the frame with no previous rectangle at their index.
BarNewEntries ==
    {i \in 1..Len(series.props.geometry) :
        ~(series.state.hasPrev /\ i <= Len(series.state.prev))}

BarGrown(target) == interpolateNumber(Num(0), target, Progress(series.animate.k))

\* C17, as the specification states it: a rectangle with no previous one at
\* its index grows in height in vertical layout, with
\* y = y_final - (targetHeight - currentHeight), and grows in width with x
\* fixed in horizontal layout.
C17_Original ==
    BarFrameShown
    => \A i \in BarNewEntries :
          LET entry == series.props.geometry[i]
              shown == series.frame.geometry[i]
          IN  IF series.props.layout = "vertical"
              THEN /\ shown.height = BarGrown(entry.height)
                   /\ shown.y = Sub(entry.y, Sub(entry.height, shown.height))
              ELSE /\ shown.width = BarGrown(entry.width)
                   /\ shown.x = entry.x

\* C17: a rectangle with no previous one at its index grows, in layout
\* 'horizontal', in height from 0 to the target height with its bottom edge
\* fixed: y = y_final + (targetHeight - currentHeight), x and width final; in
\* any other layout it grows in width from 0 to the target width with x, y
\* and height final.
C17_BarGrowth ==
    BarFrameShown
    => \A i \in BarNewEntries :
          LET entry == series.props.geometry[i]
              shown == series.frame.geometry[i]
          IN  IF series.props.layout = "horizontal"
              THEN /\ shown.height = BarGrown(entry.height)
                   /\ shown.y = Add(entry.y, Sub(entry.height, shown.height))
                   /\ shown.x = entry.x /\ shown.width = entry.width
              ELSE /\ shown.width = BarGrown(entry.width)
                   /\ shown.x = entry.x
                   /\ shown.y = entry.y /\ shown.height = entry.height

\* A second rectangle entering in layout 'horizontal' next to one that had a
\* previous rectangle, part of the way up.
C17_Witness ==
    /\ BarFrameShown
    /\ series.props.layout = "horizontal"
    /\ series.animate.phase = "running"
    /\ series.animate.k \in 1..(TDen - 1)
    /\ BarNewEntries = {2}
    /\ Gt(series.frame.geometry[2].height, Num(0))
    /\ Lt(series.frame.geometry[2].height, series.props.geometry[2].height)
    /\ Gt(series.frame.geometry[2].y, series.props.geometry[2].y)

----------------------------------------------------------------------------
(* Claims about line points with no previous point *)

\* The current points (counted from 1) whose mapped index meets no previous
\* point.
LineUnmappedPoints ==
    LET m == Len(lineAnim.c.prevPoints)
        n == Len(lineAnim.c.points)
    IN  {i \in 1..n : ((i - 1) * m) \div n >= m}

LineSyntheticOrigin ==
    [x |-> Mul(Num(2), lineAnim.c.width), y |-> Div(lineAnim.c.height, Num(2))]

LineGlide(from, to) ==
    [x |-> Add(from.x, Mul(Progress(lineAnim.k), Sub(to.x, from.x))),
     y |-> Add(from.y, Mul(Progress(lineAnim.k), Sub(to.y, from.y)))]

\* C18: when previous points are kept, a current point with no mapped
\* previous point moves linearly from (2 x width, height / 2) to its final
\* position if animateNewValues is true, and is at its final position at every
\* t if animateNewValues is false.
C18_AnimateNewValues ==
    lineAnim.c.hasPrevPoints
    => \A i \in LineUnmappedPoints :
          lineAnim.frame.points[i] =
              (IF lineAnim.c.animateNewValues
               THEN LineGlide(LineSyntheticOrigin, lineAnim.c.points[i])
               ELSE lineAnim.c.points[i])

\* An empty previous sequence, animateNewValues on, plot 100 x 50: half way,
\* the first point is midway between (200, 25) and its final position.
C18_Witness ==
    /\ lineAnim.c.hasPrevPoints
    /\ lineAnim.c.animateNewValues
    /\ LineUnmappedPoints # {}
    /\ 2 * lineAnim.k = TDen
    /\ lineAnim.frame.points[1].x = Div(Add(Num(200), lineAnim.c.points[1].x), Num(2))
    /\ lineAnim.frame.points[1].y = Div(Add(Num(25), lineAnim.c.points[1].y), Num(2))
    /\ lineAnim.frame.points[1] # lineAnim.c.points[1]

----------------------------------------------------------------------------
(* Claims about the interpolated pie sectors *)

PieFrameShown == series.kind = "Pie" /\ series.frame.animated

PieSweepOf(sector) == Sub(sector.endAngle, sector.startAngle)

\* The sweep the sector at index i starts from: the previous sector's, 0 when
\* there is none at that index.
PiePreviousSweep(i) ==
    IF series.state.hasPrev /\ i <= Len(series.state.prev)
    THEN PieSweepOf(series.state.prev[i])
    ELSE Num(0)

\* C19: in every frame of the pie animation there is one sector per target
\* sector; the first starts at the first target sector's startAngle, every
\* later one at the end of the one before plus its own signed paddingAngle;
\* and each sweep lies at t on the line from the previous sweep at its index
\* (0 when there is none) to the target sweep.
C19_PieContiguity ==
    PieFrameShown
    => LET shown == series.frame.geometry
           target == series.props.geometry
           t == Progress(series.animate.k)
       IN  /\ Len(shown) = Len(target)
           /\ shown[1].startAngle = target[1].startAngle
           /\ \A i \in 2..Len(shown) :
                 shown[i].startAngle = Add(shown[i - 1].endAngle, target[i].paddingAngle)
           /\ \A i \in 1..Len(shown) :
                 PieSweepOf(shown[i]) =
                     Add(PiePreviousSweep(i),
                         Mul(t, Sub(PieSweepOf(target[i]), PiePreviousSweep(i))))

\* Three padded sectors replacing two, part of the way: the third one is new
\* and the second starts 5 degrees after the first ends.
C19_Witness ==
    /\ PieFrameShown
    /\ series.animate.phase = "running"
    /\ series.animate.k \in 1..(TDen - 1)
    /\ Len(series.frame.geometry) = 3
    /\ series.state.hasPrev /\ Len(series.state.prev) = 2
    /\ series.props.geometry[1].paddingAngle = Num(5)
    /\ series.frame.geometry[1].startAngle = Num(0)
    /\ series.frame.geometry[2].startAngle = Add(series.frame.geometry[1].endAngle, Num(5))
    /\ Gt(PieSweepOf(series.frame.geometry[3]), Num(0))
    /\ Lt(PieSweepOf(series.frame.geometry[3]), PieSweepOf(series.props.geometry[3]))

----------------------------------------------------------------------------
(* Claims about a dash pattern with a token that is not a number *)

DashHasBadToken ==
    \E i \in 1..Len(lineAnim.c.strokeDasharray) : lineAnim.c.strokeDasharray[i] = "x"

\* C20, as the specification states it: a token that is not a number parses
\* to NaN, and the NaN reaches the pattern arithmetic and the dasharray drawn.
C20_Original ==
    (DashFrame /\ DashHasBadToken)
    => /\ \E i \in 1..Len(DashPattern) : DashPattern[i] = NaN
       /\ DashUnitLength = NaN
       /\ \E i \in 1..Len(DashValues) : DashValues[i] = NaN

\* C20: a token that is not a number parses to NaN and makes the unit length
\* NaN; the dasharray drawn is then the one of a line without a pattern,
\* revealLength and totalLength - revealLength joined by a space, and holds
\* no NaN.
C20_BadTokenFallsBack ==
    (DashFrame /\ DashHasBadToken)
    => /\ \E i \in 1..Len(DashPattern) : DashPattern[i] = NaN
       /\ DashUnitLength = NaN
       /\ lineAnim.frame.strokeDasharray =
              [sep |-> " ", unit |-> "px", values |-> <<lineAnim.frame.curLength, DashRest>>]
       /\ \A i \in 1..Len(DashValues) : IsNumber(DashValues[i])

\* Pattern "4 x" on a path of length 4, half revealed: 2px 2px.
C20_Witness ==
    /\ DashFrame
    /\ lineAnim.c.strokeDasharray = <<"4", "x">>
    /\ lineAnim.c.totalLength = Num(4)
    /\ 2 * lineAnim.k = TDen
    /\ DashValues = <<Num(2), Num(2)>>

----------------------------------------------------------------------------
(* Claims about the measurement of the path length *)

LineMeasures == series.kind = "Line" /\ series.props.isAnimationActive

\* C21 as stated: the path length of a Line is measured only on mount or
\* when an update brings a new geometry.
C21_Original ==
    (series.kind = "Line" /\ series.measurements > 0)
    => (series.event = "mount" \/ (series.event = "update" /\ series.props.isNewRef))

\* C21, amended: an animation tick measures nothing; a Line whose animation is
\* active measures its path on every update of the component, whether the
\* geometry is new or not: on new props, and after a hook's setState that
\* changed the finished flag; it measures a second time exactly when the
\* first measurement changed the stored totalLength; a Line whose animation
\* is not active does not measure.
C21_Measurement ==
    [][series.kind = "Line" =>
         /\ series'.event = "tick" => series'.measurements = 0
         /\ ~series'.props.isAnimationActive => series'.measurements = 0
         /\ (series'.event = "update" /\ series'.props.isAnimationActive)
            => series'.measurements >= 1
         /\ (/\ series'.event \in {"start", "end"}
             /\ series'.props.isAnimationActive
             /\ series'.state.isAnimationFinished # series.state.isAnimationFinished)
            => series'.measurements >= 1
         /\ series'.measurements = 2
            <=> (series'.event # "tick"
                 /\ series'.state.totalLength # series.state.totalLength)]_vars

\* An animation start changed the finished flag and the path was measured,
\* with no new geometry.
C21_Witness ==
    /\ LineMeasures /\ series.event = "start" /\ ~series.props.isNewRef
    /\ series.measurements = 1 /\ ~series.state.isAnimationFinished

----------------------------------------------------------------------------
(* Claims about the layout of the pie sectors *)

PieSign == mathSign(Sub(pieProps.endAngle, pieProps.startAngle))

\* |deltaAngle| - nonZeroCount x minAngle - totalPadding
PieBudget(minAngle) ==
    Sub(Sub(PieCappedSweep, Mul(Num(Cardinality(PieNonZeroEntries)), minAngle)),
        PieClaimedPadding)

\* Every sector starts and ends where the layout rule puts it, for the given
\* minimum angle and the given share of an entry whose value is not a number.
PieLaidOut(minAngle, shareOfNonNumber) ==
    \A i \in 1..Len(pieComposed.sectors) :
        LET value == pieProps.data[i]
            share == IF IsNumber(value)
                     THEN Div(value, Num(PieNumericTotal(pieProps.data)))
                     ELSE shareOfNonNumber
            start == IF i = 1 THEN pieProps.startAngle
                     ELSE Add(pieComposed.sectors[i - 1].endAngle,
                              IF value = Num(0) THEN Num(0)
                              ELSE Mul(PieSign, pieProps.paddingAngle))
            sweep == Add(IF value # Num(0) THEN minAngle ELSE Num(0),
                         Mul(share, PieBudget(minAngle)))
        IN  /\ pieComposed.sectors[i].startAngle = start
            /\ pieComposed.sectors[i].endAngle = Add(start, Mul(PieSign, sweep))

PieExampleInput ==
    [data |-> <<Num(1), Num(1), Num(2)>>, startAngle |-> Num(0), endAngle |-> Num(360),
     minAngle |-> Num(0), paddingAngle |-> Num(0)]

\* C22 as stated: the layout rule with the minAngle prop as configured and
\* value / sum as the share of every entry.
C22_Original ==
    (pieComposed.hasSectors /\ Len(pieComposed.sectors) = Len(pieProps.data))
    => PieLaidOut(pieProps.minAngle, NaN)

\* C22, amended: for pie input with sum > 0 there is one sector per entry;
\* sector 0 starts at the configured startAngle, sector i > 0 at sector i-1's
\* endAngle plus sign x paddingAngle (plus 0 when its value is exactly 0), and
\* each sector ends at its start + sign x ((|minAngle| if value # 0, else 0) +
\* share x budget), where budget = |deltaAngle| - nonZeroCount x |minAngle| -
\* totalPadding and share is value / sum for a number and 0 for a value that
\* is not a number; values [1,1,2] from 0 to 360 with no minAngle and no
\* padding sweep 90, 90 and 180.
C22_PieLayout ==
    /\ pieComposed.hasSectors
       => /\ Len(pieComposed.sectors) = Len(pieProps.data)
          /\ PieLaidOut(MathAbs(pieProps.minAngle), Num(0))
    /\ pieProps = PieExampleInput => PieSweeps = <<Num(90), Num(90), Num(180)>>

\* Three sectors in a clockwise pie with minimum angle and padding, the second
\* of value 0: it starts where the first ends and sweeps nothing.
C22_Witness ==
    /\ pieComposed.hasSectors /\ Len(pieComposed.sectors) = 3
    /\ PieSign = Num(-1)
    /\ pieProps.minAngle = Num(2) /\ pieProps.paddingAngle = Num(5)
    /\ pieProps.data[2] = Num(0) /\ pieProps.data[3] = Num(2)
    /\ pieComposed.sectors[2].startAngle = pieComposed.sectors[1].endAngle
    /\ pieComposed.sectors[2].endAngle = pieComposed.sectors[2].startAngle
    /\ pieComposed.sectors[3].startAngle = Sub(pieComposed.sectors[2].endAngle, Num(5))
    /\ PieLaidOut(Num(2), Num(0))

----------------------------------------------------------------------------
(* Claims about a dash pattern of unit length 0 *)

\* The dasharray of a line without a pattern: '<revealLength>px
\* <totalLength - revealLength>px'.
DashWithoutPattern ==
    [sep |-> " ", unit |-> "px", values |-> <<lineAnim.frame.curLength, DashRest>>]

\* C23: when the entries of the custom dash pattern sum to 0, the dasharray
\* of the reveal is the one of a line without a pattern: the revealed length
\* and the remainder, each with px, joined by a space.
C23_ZeroUnitLength ==
    (DashFrame /\ Len(DashPattern) > 0 /\ DashUnitLength = Num(0))
    => lineAnim.frame.strokeDasharray = DashWithoutPattern

\* Pattern "0 0" on a path of length 4 revealed to three quarters: 3px 1px.
C23_Witness ==
    /\ DashFrame
    /\ lineAnim.c.strokeDasharray = <<"0", "0">>
    /\ lineAnim.c.totalLength = Num(4)
    /\ 4 * lineAnim.k = 3 * TDen
    /\ lineAnim.frame.strokeDasharray =
           [sep |-> " ", unit |-> "px", values |-> <<Num(3), Num(1)>>]

----------------------------------------------------------------------------
(* Claims about the last frame of the pie animation *)

\* C24: at t = 1 every sector the pie interpolation draws has the startAngle
\* and the endAngle of its target sector, as Pie.getComposedData computed
\* them.
C24_Original ==
    (PieFrameShown /\ series.animate.k = TDen)
    => /\ Len(series.frame.geometry) = Len(series.props.geometry)
       /\ \A i \in 1..Len(series.frame.geometry) :
              /\ series.frame.geometry[i].startAngle = series.props.geometry[i].startAngle
              /\ series.frame.geometry[i].endAngle = series.props.geometry[i].endAngle

----------------------------------------------------------------------------
(* Claims about the index mapping of the line interpolation *)

\* The current points (counted from 1) that the frame shows the way a point
\* with no mapped previous point is shown: on its way from the synthetic origin,
\* or at its final position.
LineShownUnmapped ==
    {i \in 1..Len(lineAnim.c.points) :
        lineAnim.frame.points[i] =
            (IF lineAnim.c.animateNewValues
             THEN LineGlide(LineSyntheticOrigin, lineAnim.c.points[i])
             ELSE lineAnim.c.points[i])}

\* C25: for m >= 1 previous and n >= 1 current points, the index the code
\* maps current point i to (i from 0) lies in 0..m-1, is 0 for i = 0 and does
\* not decrease with i, and every point of the frame is on its way from the
\* previous point of that index; before t = 1 a point is shown as one with no
\* mapped previous point only when the previous sequence is empty.
C25_IndexMapping ==
    LET m == Len(lineAnim.c.prevPoints)
        n == Len(lineAnim.c.points)
    IN  /\ (lineAnim.c.hasPrevPoints /\ m >= 1 /\ n >= 1)
           => /\ \A i \in 0..(n - 1) : prevPointIndex(i, m, n) \in 0..(m - 1)
              /\ prevPointIndex(0, m, n) = 0
              /\ \A i \in 0..(n - 2) : prevPointIndex(i, m, n) <= prevPointIndex(i + 1, m, n)
              /\ \A i \in 0..(n - 1) :
                    lineAnim.frame.points[i + 1] =
                        LineGlide(lineAnim.c.prevPoints[((i * m) \div n) + 1],
                                  lineAnim.c.points[i + 1])
        /\ (lineAnim.c.hasPrevPoints /\ lineAnim.k < TDen /\ LineShownUnmapped # {})
           => m = 0

\* Five previous points and three current ones, half way: the third point is
\* midway between the fourth previous point and its final position.
C25_Witness ==
    /\ lineAnim.c.hasPrevPoints
    /\ Len(lineAnim.c.prevPoints) = 5
    /\ Len(lineAnim.c.points) = 3
    /\ 2 * lineAnim.k = TDen
    /\ prevPointIndex(2, 5, 3) = 3
    /\ lineAnim.frame.points[3].x =
           Div(Add(lineAnim.c.prevPoints[4].x, lineAnim.c.points[3].x), Num(2))
    /\ LineShownUnmapped = {}

----------------------------------------------------------------------------
(* Claims about the alternation of dashes and gaps *)

\* The entries at even positions counted from 0: the dashes.
DashDrawn == [j \in 1..((Len(DashValues) + 1) \div 2) |-> DashValues[2 * j - 1]]

\* C26: for a pattern of non-negative numbers with positive sum, of odd or
\* even length, and a revealed length between 0 and totalLength, the
\* dasharray has an even number of entries, its last entry is the gap
\* totalLength - revealLength, and its dashes add up to at most the revealed
\* length.
C26_DashParity ==
    (DashFrame /\ DashPatternPositive)
    => /\ Ge(lineAnim.frame.curLength, Num(0))
       /\ Le(lineAnim.frame.curLength, lineAnim.c.totalLength)
       /\ Len(DashValues) % 2 = 0
       /\ DashValues[Len(DashValues)] = DashRest
       /\ \A i \in 1..Len(DashValues) : Ge(DashValues[i], Num(0))
       /\ Le(SumSeq(DashDrawn), lineAnim.frame.curLength)

\* Pattern [1,1,1] revealed to 15/4 of 5: the period 1, 1, 1, 0, then the
\* dash 3/4 and the gap 5/4; the dashes add up to 11/4.
C26_Witness ==
    /\ DashFrame /\ DashPatternPositive
    /\ lineAnim.c.strokeDasharray = <<"1", "1", "1">>
    /\ lineAnim.c.totalLength = Num(5)
    /\ lineAnim.k = 3
    /\ DashValues = <<Num(1), Num(1), Num(1), Num(0), Norm(3, 4), Norm(5, 4)>>
    /\ SumSeq(DashDrawn) = Norm(11, 4)

----------------------------------------------------------------------------
(* Claims about the current geometry kept in the state *)

\* C27: after mount and after every update of a Line, Bar or Pie, whatever
\* the animationId, isAnimationActive and geometry it brought, and after
\* every render caused by an animation hook, the current geometry of the state
\* (curPoints, curData, curSectors) is the geometry of the latest props.
C27_CurrentGeometry ==
    /\ series.state.hasCur
    /\ series.state.cur = series.props.geometry

\* A Line whose animation runs from one geometry to another gets a third
\* geometry under the same animationId: the state's current geometry is the
\* new one, the previous one is kept.
C27_Witness ==
    /\ series.kind = "Line" /\ series.event = "update"
    /\ series.props.isNewRef
    /\ series.props.animationId = 1
    /\ series.animate.phase = "running" /\ series.animate.key = 1
    /\ series.state.hasPrev /\ Len(series.state.prev) = 2
    /\ Len(series.props.geometry) = 3
    /\ series.state.cur = series.props.geometry

----------------------------------------------------------------------------
(* Claims about the two mechanisms of the Line animation *)

LineFrameShown == series.kind = "Line" /\ series.frame.animated

\* The point current point i (from 1) is interpolated from: the previous
\* point of the mapped index, or the synthetic origin when there is none.
LineOriginOf(i) ==
    LET m == Len(series.state.prev)
        n == Len(series.props.geometry)
        j == (((i - 1) * m) \div n) + 1
    IN  IF j <= m THEN series.state.prev[j] ELSE Point(200, 25)

LinePositional ==
    /\ series.frame.strokeDasharray = NoDasharray
    /\ series.frame.geometry =
           [i \in 1..Len(series.props.geometry) |->
               LET from == LineOriginOf(i)
                   to == series.props.geometry[i]
                   t == Progress(series.animate.k)
               IN  [x |-> Add(from.x, Mul(t, Sub(to.x, from.x))),
                    y |-> Add(from.y, Mul(t, Sub(to.y, from.y)))]]

LineDashReveal ==
    LET revealLength == Mul(Progress(series.animate.k), series.state.totalLength)
    IN  /\ series.frame.geometry = series.props.geometry
        /\ series.frame.strokeDasharray =
               [sep |-> " ", unit |-> "px",
                values |-> <<revealLength, Sub(series.state.totalLength, revealLength)>>]

\* C28: every frame of a Line animation is drawn by one mechanism: with
\* previous points in the state the points are interpolated and no dasharray
\* is set, without them the final points are drawn under the reveal
\* dasharray; previous points, once in the state, stay in it; and the dash
\* reveal is drawn only while the animationId is still the one of the mount.
C28_OneMechanism ==
    /\ [](LineFrameShown
          => /\ series.state.hasPrev => (LinePositional /\ ~LineDashReveal)
             /\ ~series.state.hasPrev
                => /\ LineDashReveal /\ ~LinePositional
                   /\ series.props.animationId = 0
                   /\ series.state.prevAnimationId = 0)
    /\ [][(series.kind = "Line" /\ series.state.hasPrev) => series'.state.hasPrev]_vars

\* A tick of the dash reveal after mount.
C28_Witness ==
    /\ LineFrameShown /\ series.event = "tick" /\ ~series.state.hasPrev
    /\ series.animate.k \in 1..(TDen - 1)
    /\ LineDashReveal
    /\ series.frame.strokeDasharray.values[1] # Num(0)

----------------------------------------------------------------------------
(* Claims about the keyboard handling of the pie *)

\* C29: with n >= 1 registered sector refs, sectorToFocus is always in
\* 0..n-1; a key event without Alt moves it to (i+1) mod n on ArrowLeft and to
\* (i-1) mod n on ArrowRight, sets it to 0 on Escape and leaves it on any
\* other key; a key event with Alt leaves it; and ArrowLeft followed by
\* ArrowRight brings it back.
C29_PieFocus ==
    /\ [](pieFocus.sectorRefs >= 1 => pieFocus.sectorToFocus \in 0..(pieFocus.sectorRefs - 1))
    /\ [](onkeydown(onkeydown(pieFocus, "ArrowLeft", FALSE), "ArrowRight", FALSE).sectorToFocus
              = pieFocus.sectorToFocus)
    /\ [][pieFocus'.key # "none"
          => LET n == pieFocus.sectorRefs
                 i == pieFocus.sectorToFocus
             IN  pieFocus'.sectorToFocus =
                     (CASE pieFocus'.altKey -> i
                        [] ~pieFocus'.altKey /\ pieFocus'.key = "ArrowLeft" -> (i + 1) % n
                        [] ~pieFocus'.altKey /\ pieFocus'.key = "ArrowRight" -> (i - 1 + n) % n
                        [] ~pieFocus'.altKey /\ pieFocus'.key = "Escape" -> 0
                        [] OTHER -> i)]_vars

\* ArrowRight on sector 0 of three wraps to sector 2, which gets the focus.
C29_Witness ==
    /\ pieFocus.sectorRefs = 3
    /\ pieFocus.key = "ArrowRight" /\ ~pieFocus.altKey
    /\ pieFocus.before = 0
    /\ pieFocus.sectorToFocus = 2 /\ pieFocus.focused = 2

----------------------------------------------------------------------------
(* Claims about the angular range of the pie *)

PieRangeStart == pieProps.startAngle

\* startAngle_cfg + deltaAngle, deltaAngle being the signed sweep capped at a
\* full turn.
PieRangeEnd == Add(pieProps.startAngle, parseDeltaAngle(pieProps.startAngle, pieProps.endAngle))

PieInRange(angle) ==
    \/ Le(PieRangeStart, angle) /\ Le(angle, PieRangeEnd)
    \/ Le(PieRangeEnd, angle) /\ Le(angle, PieRangeStart)

\* C30, read with a paddingAngle that is not negative: for values that are
\* non-negative numbers with sum > 0 and a budget that is not negative, every
\* sector starts and ends inside the configured range, from startAngle to
\* startAngle + deltaAngle.
C30_Original ==
    (/\ pieComposed.hasSectors
     /\ \A i \in 1..Len(pieProps.data) : Ge(pieProps.data[i], Num(0))
     /\ Ge(pieProps.paddingAngle, Num(0))
     /\ Ge(realTotalAngle(pieProps), Num(0)))
    => \A i \in 1..Len(pieComposed.sectors) :
          /\ PieInRange(pieComposed.sectors[i].startAngle)
          /\ PieInRange(pieComposed.sectors[i].endAngle)

====
